---- MODULE Spec2Model ----
(***************************************************************************)
(* Conversation management and LLM response recovery of data-to-paper.     *)
(*                                                                         *)
(* The registry (conversations + the global action list), one              *)
(* ConversationManager bound to the conversation "primary", with or        *)
(* without a web conversation, and the recovery loop of                    *)
(* get_and_append_assistant_message.                                       *)
(*                                                                         *)
(* Python lists are zero-based, TLA+ sequences are one-based: the message  *)
(* with Python index i is messages[i + 1].                                 *)
(***************************************************************************)
EXTENDS Integers, Sequences, FiniteSets, TLC

(***************************************************************************)
(* Bounds of the model.                                                    *)
(***************************************************************************)
\* Longest conversation that manager operations build (an LLM response may
\* add one more message).
MaxLen == 3
\* Number of manager operations started after construction.
MaxOps == 2
\* Cap on the LLM calls of one invocation of the recovery loop.
MaxCalls == 12

(***************************************************************************)
(* Values.                                                                 *)
(***************************************************************************)
\* Role
SYSTEM == "SYSTEM"
USER == "USER"
ASSISTANT == "ASSISTANT"
SURROGATE == "SURROGATE"
COMMENTER == "COMMENTER"
Role == {SYSTEM, USER, ASSISTANT, SURROGATE, COMMENTER}

\* Python's None, for a tag, an agent, a model, ...
None == "None"
Tags == {None, "t"}

\* ModelEngine: the members by their index in the enum (IndexOrderedEnum
\* compares members by that index).
GPT35_TURBO == 1
GPT35_TURBO_16 == 2
GPT4 == 3
GPT4_TURBO == 4
LLAMA_2_7b == 5
LLAMA_2_70b == 6
CODELLAMA == 7
ModelEngine == GPT35_TURBO..CODELLAMA
\* None, where a ModelEngine is expected.
NoModel == 0

\* IndexOrderedEnum.get_next: the next member in the order of the enum.
get_next(engine) == engine + 1

\* ModelEngine.max_tokens: the first entry of the model's row in
\* MODEL_ENGINE_TO_MAX_TOKENS_AND_IN_OUT_DOLLAR.
max_tokens(engine) ==
    CASE engine = GPT35_TURBO -> 4096
      [] engine = GPT35_TURBO_16 -> 16384
      [] engine = GPT4 -> 8192
      [] engine = GPT4_TURBO -> 128000
      [] engine = LLAMA_2_7b -> 4096
      [] engine = LLAMA_2_70b -> 4096
      [] engine = CODELLAMA -> 4096

\* A table of more context that follows the order of the enum.
MODELS_TO_MORE_CONTEXT_BY_ORDER ==
    [engine \in ModelEngine |->
        IF engine < GPT4_TURBO THEN engine + 1 ELSE NoModel]

\* MODELS_TO_MORE_CONTEXT (NoModel for None).
MODELS_TO_MORE_CONTEXT ==
    [engine \in ModelEngine |->
        CASE engine = GPT35_TURBO_16 -> GPT4_TURBO
          [] engine = GPT35_TURBO -> GPT35_TURBO_16
          [] engine = GPT4 -> GPT4_TURBO
          [] engine = GPT4_TURBO -> NoModel
          [] engine = LLAMA_2_7b -> NoModel
          [] engine = LLAMA_2_70b -> NoModel
          [] engine = CODELLAMA -> NoModel]

\* MODELS_TO_MORE_STRENGTH (NoModel for None).
MODELS_TO_MORE_STRENGTH ==
    [engine \in ModelEngine |->
        CASE engine = GPT35_TURBO_16 -> GPT4_TURBO
          [] engine = GPT35_TURBO -> GPT4_TURBO
          [] engine = GPT4 -> GPT4_TURBO
          [] engine = GPT4_TURBO -> NoModel
          [] engine = LLAMA_2_7b -> LLAMA_2_70b
          [] engine = LLAMA_2_70b -> CODELLAMA
          [] engine = CODELLAMA -> NoModel]

\* The manager under study: its fields.
conversation_name == "primary"
assistant_agent == "Performer"
user_agent == "Mentor"
\* ConversationManager.participants
participants == {assistant_agent, user_agent}

\* The names of the registry: the manager's conversation, one owned by
\* another manager (the source of copied messages), and the web
\* conversation, the mirror a manager may have.
ConvNames == {"primary", "other", "web"}

\* Kinds of failure the LLM gateway returns.
FailureKinds == {"RATE_LIMIT", "CONTEXT_TOO_LONG", "MALFORMED", "TRANSIENT"}

(***************************************************************************)
(* Message and Conversation.                                               *)
(***************************************************************************)
\* create_message: context is the list of messages the message was
\* generated from (<<>> for None), openai_call_parameters is reduced to its
\* model_engine (NoModel when all parameters are None).
create_message(role, content, tag, agent, context, params) ==
    [role |-> role, content |-> content, tag |-> tag, agent |-> agent,
     context |-> context, openai_call_parameters |-> params]

\* The "absent" value get_conversation returns for a name never created.
NoConversation == [exists |-> FALSE, messages |-> <<>>, participants |-> {}]

NewConversation(agents) ==
    [exists |-> TRUE, messages |-> <<>>, participants |-> agents]

\* The elements of a list, as a set.
Range(s) == {s[i] : i \in 1..Len(s)}

\* A set of integers as an ascending list.
RECURSIVE SetToSeq(_)
SetToSeq(S) ==
    IF S = {} THEN <<>>
    ELSE LET lo == CHOOSE x \in S : \A y \in S : x <= y
         IN <<lo>> \o SetToSeq(S \ {lo})

\* The list s without its element at (one-based) position p.
RemoveAt(s, p) == SubSeq(s, 1, p - 1) \o SubSeq(s, p + 1, Len(s))

\* Conversation.get_chosen_indices_and_messages: the zero-based indices of
\* the messages that are not hidden, ascending (each stands for the pair
\* (index, message)).
get_chosen_indices_and_messages(conv, hidden) ==
    SetToSeq({i \in 0..(Len(conv.messages) - 1) : i \notin Range(hidden)})

\* Conversation.get_chosen_messages: the messages with the hidden indices
\* removed, in order.
get_chosen_messages(conv, hidden) ==
    LET idx == get_chosen_indices_and_messages(conv, hidden)
    IN [j \in 1..Len(idx) |-> conv.messages[idx[j] + 1]]

\* The one-based positions of the messages bearing tag.
PositionsOfTag(conv, tag) ==
    {p \in 1..Len(conv.messages) : conv.messages[p].tag = tag}

\* The lookup by tag returning the earliest match.
FirstPositionOfTag(conv, tag) ==
    LET S == PositionsOfTag(conv, tag)
    IN IF S = {} THEN 0 ELSE CHOOSE p \in S : \A q \in S : p <= q

\* The one-based position of the last message bearing tag, 0 when there is
\* none.
LastPositionOfTag(conv, tag) ==
    LET S == PositionsOfTag(conv, tag) \cup {0}
    IN CHOOSE p \in S : \A q \in S : q <= p

\* The one-based position a Python index designates (negative indices count
\* from the end), 0 when out of range.
PositionOf(conv, index) ==
    LET n == Len(conv.messages)
        p == IF index < 0 THEN n + index + 1 ELSE index + 1
    IN IF p >= 1 /\ p <= n THEN p ELSE 0

(***************************************************************************)
(* Actions: the entries of the global action list.                         *)
(***************************************************************************)
NoMessage == create_message(None, 0, None, None, <<>>, NoModel)

\* The fields every action has; message_designation is <<>> or a
\* one-element list holding a Python index, hidden_messages names a list
\* object of the heap (0 for none), adjust_message_for_web is the agent of
\* {'agent': ...} (None for no adjustment).
Action(type, name) ==
    [type |-> type, conversation_name |-> name, message |-> NoMessage,
     tag |-> None, message_designation |-> <<>>, participants |-> {},
     hidden_messages |-> 0, exception |-> None,
     source_conversation_name |-> None, agent |-> None,
     web_conversation_name |-> None, adjust_message_for_web |-> None]

CreateConversation(name, agents) ==
    [Action("CreateConversation", name) EXCEPT !.participants = agents]
AddParticipantsToConversation(name, agents) ==
    [Action("AddParticipantsToConversation", name) EXCEPT !.participants = agents]
AppendMessage(name, message) ==
    [Action("AppendMessage", name) EXCEPT !.message = message]
DeleteMessages(name, index) ==
    [Action("DeleteMessages", name) EXCEPT !.message_designation = <<index>>]
ResetToTag(name, tag) ==
    [Action("ResetToTag", name) EXCEPT !.tag = tag]
ReplaceLastResponse(name, message) ==
    [Action("ReplaceLastResponse", name) EXCEPT !.message = message]
CopyMessagesBetweenConversations(name, source, index) ==
    [Action("CopyMessagesBetweenConversations", name)
        EXCEPT !.source_conversation_name = source, !.message_designation = <<index>>]
AppendChatgptResponse(name, hidden, message) ==
    [Action("AppendChatgptResponse", name)
        EXCEPT !.hidden_messages = hidden, !.message = message]
FailedChatgptResponse(name, hidden, exception) ==
    [Action("FailedChatgptResponse", name)
        EXCEPT !.hidden_messages = hidden, !.exception = exception]
SetTypingAgent(name, agent) ==
    [Action("SetTypingAgent", name) EXCEPT !.agent = agent]

\* (a) the precondition an action validates against the registry.
Precondition(a, convs) ==
    LET conv == convs[a.conversation_name]
    IN CASE a.type = "CreateConversation" -> TRUE
         [] a.type = "DeleteMessages" ->
                conv.exists /\ PositionOf(conv, a.message_designation[1]) # 0
         [] a.type = "ResetToTag" ->
                conv.exists /\ PositionsOfTag(conv, a.tag) # {}
         [] a.type = "ReplaceLastResponse" ->
                conv.exists /\ Len(conv.messages) >= 1
         [] a.type = "CopyMessagesBetweenConversations" ->
                /\ conv.exists
                /\ convs[a.source_conversation_name].exists
                /\ PositionOf(convs[a.source_conversation_name],
                              a.message_designation[1]) # 0
         [] a.type = "SetTypingAgent" ->
                /\ a.web_conversation_name # None
                /\ convs[a.web_conversation_name].exists
         [] OTHER -> conv.exists

\* Conversation.reset_to_tag: the conversation cut after the last message
\* bearing tag.
reset_to_tag(conv, tag) ==
    LET last == LastPositionOfTag(conv, tag)
    IN [conv EXCEPT !.messages = SubSeq(conv.messages, 1, last)]

\* The registry creating a conversation anew under a name it holds.
get_or_create_conversation_anew(conv, agents) == NewConversation(agents)

\* The registry's get-or-create: a name it holds keeps its conversation.
get_or_create_conversation(conv, agents) ==
    IF conv.exists THEN conv ELSE NewConversation(agents)

\* (b) the registry after the action has mutated its conversation.
Apply(a, convs) ==
    LET name == a.conversation_name
        conv == convs[name]
        new ==
          CASE a.type = "CreateConversation" ->
                 get_or_create_conversation(conv, a.participants)
            [] a.type = "AddParticipantsToConversation" ->
                 [conv EXCEPT !.participants = @ \cup a.participants]
            [] a.type \in {"AppendMessage", "AppendChatgptResponse"} ->
                 [conv EXCEPT !.messages = Append(@, a.message)]
            [] a.type = "DeleteMessages" ->
                 [conv EXCEPT !.messages =
                     RemoveAt(@, PositionOf(conv, a.message_designation[1]))]
            [] a.type = "ResetToTag" -> reset_to_tag(conv, a.tag)
            [] a.type = "ReplaceLastResponse" ->
                 [conv EXCEPT !.messages =
                     Append(SubSeq(@, 1, Len(@) - 1), a.message)]
            [] a.type = "CopyMessagesBetweenConversations" ->
                 LET src == convs[a.source_conversation_name]
                 IN [conv EXCEPT !.messages =
                       Append(@, src.messages[PositionOf(src, a.message_designation[1])])]
            [] OTHER -> conv
        web == a.web_conversation_name
        \* the append mirrored to the web conversation, the agent adjusted
        mirrored ==
            /\ a.type \in {"AppendMessage", "AppendChatgptResponse"}
            /\ web # None
            /\ web # name
            /\ convs[web].exists
        for_web ==
            [a.message EXCEPT !.agent = IF a.adjust_message_for_web # None
                                        THEN a.adjust_message_for_web ELSE @]
    IN [c \in DOMAIN convs |->
          IF c = name THEN new
          ELSE IF mirrored /\ c = web
          THEN [convs[c] EXCEPT !.messages = Append(@, for_web)]
          ELSE convs[c]]

\* Replaying the first n entries of an action list on a registry.
RECURSIVE Replay(_, _, _)
Replay(log, n, convs) ==
    IF n = 0 THEN convs
    ELSE LET before == Replay(log, n - 1, convs)
         IN IF Precondition(log[n], before) THEN Apply(log[n], before) ELSE before

EmptyRegistry == [name \in ConvNames |-> NoConversation]

\* Actions.get_actions_for_conversation
get_actions_for_conversation(log, name) ==
    SelectSeq(log, LAMBDA a : a.conversation_name = name)

(***************************************************************************)
(* State.                                                                  *)
(***************************************************************************)
VARIABLES
    conversations,          \* ActionsAndConversations.conversations, by name
    actions,                \* ActionsAndConversations.actions, the global list
    lists,                  \* the hidden-message list objects, by identity
    MAX_MODEL_ENGINE,       \* env.MAX_MODEL_ENGINE
    DEFAULT_MODEL_ENGINE,   \* env.DEFAULT_MODEL_ENGINE
    web_conversation_name,  \* ConversationManager.web_conversation_name
    pc,                     \* "idle", "calling" (an LLM call is out),
                            \* "returned" or "raised"
    model,                  \* locals of get_and_append_assistant_message
    openai_call_parameters, \*   (its model_engine, None when not set)
    actual_hidden_messages, \*   (the identity of the list)
    indices_and_messages,   \*   (the indices of the pairs)
    call_tag,               \*   (the tag argument)
    last_op,                \* the operation called last, how it ended and
                            \*   the tag it named
    ops,                    \* number of operations started
    next_content,           \* the next text of the supply of texts
    h,                      \* history of the current invocation of the loop
    threads,                \* the managers sharing the registry, as threads
    locks,                  \* the registry's lock of each conversation name
    worker,                 \* the Worker thread: where it is in
                            \*   edit_text_in_panel, and what it returned
    gui,                    \* the GUI thread: its event queue, the panels'
                            \*   submit buttons, where it is in set_text_input
    mutex,                  \* Worker.mutex: the thread holding it, or None
    condition,              \* Worker.condition: the threads waiting on it
    _text_input             \* Worker._text_input

registry == <<conversations, actions>>
\* The handoff of texts between the worker thread and the GUI thread.
handoff == <<worker, gui, mutex, condition, _text_input>>
\* What no operation of the single manager assigns: the models of env, the
\* manager's field, and the threads and locks of the managers sharing the
\* registry.
env == <<MAX_MODEL_ENGINE, DEFAULT_MODEL_ENGINE, web_conversation_name,
         threads, locks, handoff>>
locals == <<model, openai_call_parameters, actual_hidden_messages,
            indices_and_messages, call_tag>>
vars == <<conversations, actions, lists, MAX_MODEL_ENGINE, DEFAULT_MODEL_ENGINE,
          web_conversation_name, pc, model, openai_call_parameters, actual_hidden_messages,
          indices_and_messages, call_tag, last_op, ops, next_content, h,
          threads, locks, worker, gui, mutex, condition, _text_input>>

\* ConversationManager.conversation
conversation == conversations[conversation_name]

\* ConversationManager.web_conversation (None when the manager has no web
\* conversation or the registry does not hold it).
web_conversation ==
    IF web_conversation_name = None THEN NoConversation
    ELSE conversations[web_conversation_name]

\* The truth value of a conversation in a condition: None is false, and a
\* conversation, a sequence of messages, is false when it is empty.
Truthy(conv) == conv.exists /\ conv.messages # <<>>

\* The outcome of a call that raises.
Raises == "raise"

\* Conversation.get_other_participant: the outcomes of the call.  In a
\* conversation of two participants of which agent is one, the other one;
\* otherwise the result is not defined: the call raises or returns a
\* participant.
get_other_participant(conv, agent) ==
    IF Cardinality(conv.participants) = 2 /\ agent \in conv.participants
    THEN conv.participants \ {agent}
    ELSE {Raises} \cup conv.participants

NoHistory ==
    [start_messages |-> <<>>, start_actions |-> 0, start_model |-> 0,
     caller_hidden |-> <<>>, calls |-> 0, fails |-> 0, steps |-> <<>>,
     last_model |-> 0, last_hidden |-> <<>>, last_payload |-> <<>>,
     returned |-> NoMessage]

\* The managers that share the registry, each a thread of its own; two are
\* bound to the same conversation and one to another.
Managers == {"m1", "m2", "m3"}
NameOf(m) == IF m = "m3" THEN "other" ELSE conversation_name
ManagerNo(m) == IF m = "m1" THEN 1 ELSE IF m = "m2" THEN 2 ELSE 3

\* A thread at rest: no action under way, no LLM call out.
IdleThread == [pc |-> "idle", pending |-> <<>>, outstanding |-> 0]
NoThreads == [m \in Managers |-> IdleThread]
NoLocks == [name \in ConvNames |-> {}]

\* The panels of ResearchStepApp that have a submit button (lines 171-176,
\* 203-206).
Panels == {"SYSTEM_PROMPT", "MISSION_PROMPT", "FEEDBACK"}
\* The texts the user submits.
Texts == {"a", "b"}

\* Worker.__init__ (lines 21-27) and ResearchStepApp.__init__ (lines 169-209):
\* the worker thread is outside edit_text_in_panel and has returned nothing;
\* the GUI thread is in its event loop, no signal is queued and every submit
\* button is hidden (line 105); the mutex is free and nobody waits on the
\* condition.  gui.editing is the request each panel was last opened for,
\* and gui.answers the calls of set_text_input so far.
NoHandoff ==
    /\ worker = [pc |-> "running", panel |-> None, requests |-> 0,
                 input_text |-> None, returned |-> <<>>]
    /\ gui = [pc |-> "idle", queue |-> <<>>, visible |-> {},
              editing |-> [p \in Panels |-> 0],
              panel |-> None, text |-> None, request |-> 0, answers |-> <<>>]
    /\ mutex = None
    /\ condition = {}
    /\ _text_input = None

(***************************************************************************)
(* Init: the manager is constructed on a registry that earlier managers    *)
(* have left: its conversation is absent, or was created and was appended  *)
(* a system message and user messages; the conversation "other" holds one  *)
(* message.  The action list is the one that built the registry.  The      *)
(* manager has no web conversation (InitMirror gives it one).              *)
(***************************************************************************)
InitMessage(i) ==
    IF i = 1
    THEN create_message(SYSTEM, 1, "system_prompt", assistant_agent, <<>>, NoModel)
    ELSE create_message(USER, i, IF i % 2 = 0 THEN "t" ELSE None,
                        user_agent, <<>>, NoModel)

OtherMessage == create_message(USER, 0, "t", user_agent, <<>>, NoModel)

InitActions(n) ==
    <<CreateConversation("other", participants), AppendMessage("other", OtherMessage)>>
    \o (IF n < 0 THEN <<>>
        ELSE <<CreateConversation(conversation_name, participants)>>
             \o [i \in 1..n |-> AppendMessage(conversation_name, InitMessage(i))])

Init ==
    /\ \E n \in -1..MaxLen :
        /\ actions = InitActions(n)
        /\ conversations = Replay(actions, Len(actions), EmptyRegistry)
        /\ next_content = IF n < 0 THEN 1 ELSE n + 1
    /\ lists = <<>>
    /\ MAX_MODEL_ENGINE \in ModelEngine
    /\ DEFAULT_MODEL_ENGINE \in ModelEngine
    /\ web_conversation_name = None
    /\ pc = "idle"
    /\ model = NoModel
    /\ openai_call_parameters = NoModel
    /\ actual_hidden_messages = 0
    /\ indices_and_messages = <<>>
    /\ call_tag = None
    /\ last_op = [name |-> "__init__", status |-> "ok", arg |-> None]
    /\ ops = 0
    /\ h = NoHistory
    /\ threads = NoThreads
    /\ locks = NoLocks
    /\ NoHandoff

(***************************************************************************)
(* ConversationManager.                                                    *)
(***************************************************************************)
\* No call of the manager is in progress and one more may start.
CanStart == pc # "calling" /\ ops < MaxOps

\* _create_and_apply_action applying the action without appending it to the
\* action list.
_create_and_apply_action_unlogged(a) ==
    IF Precondition(a, conversations)
    THEN /\ conversations' = Apply(a, conversations)
         /\ UNCHANGED actions
    ELSE UNCHANGED registry

\* _create_and_apply_action applying the action before it is validated.
_create_and_apply_action_unchecked(a) ==
    /\ conversations' = Apply(a, conversations)
    /\ actions' = IF Precondition(a, conversations) THEN Append(actions, a)
                  ELSE actions

\* _create_and_apply_action putting the action at the head of the action
\* list.
_create_and_apply_action_prepending(a) ==
    IF Precondition(a, conversations)
    THEN /\ conversations' = Apply(a, conversations)
         /\ actions' = <<a>> \o actions
    ELSE UNCHANGED registry

\* The keyword arguments a caller passes as None, and what an action built
\* with web_conversation_name=None carries until line 81 pops it.
Kwargs == {{}, {"web_conversation_name"}}
PassedNone == "passed None"

\* Lines 78-84: every action is created with the manager's
\* web_conversation_name, unless the keyword arguments hold one (line 81).
WithWeb(a) ==
    [a EXCEPT !.web_conversation_name =
        IF @ = PassedNone THEN None ELSE web_conversation_name]

\* _create_and_apply_action: the action is validated, applied and appended
\* to the action list; a failed validation raises and changes nothing.
_create_and_apply_action(a) ==
    IF Precondition(WithWeb(a), conversations)
    THEN /\ conversations' = Apply(WithWeb(a), conversations)
         /\ actions' = Append(actions, WithWeb(a))
    ELSE UNCHANGED registry

\* The registry after the actions of a list were created and applied one
\* after the other, up to the first whose validation raises.
RECURSIVE ActionsApplied(_, _)
ActionsApplied(seq, reg) ==
    IF seq = <<>> THEN reg
    ELSE IF Precondition(WithWeb(Head(seq)), reg.conversations)
    THEN ActionsApplied(Tail(seq),
             [conversations |-> Apply(WithWeb(Head(seq)), reg.conversations),
              actions |-> Append(reg.actions, WithWeb(Head(seq)))])
    ELSE reg

\* The calls of _create_and_apply_action an operation makes in a row.
_create_and_apply_actions(seq) ==
    IF Len(seq) = 1 THEN _create_and_apply_action(seq[1])
    ELSE LET reg == ActionsApplied(seq, [conversations |-> conversations,
                                         actions |-> actions])
         IN /\ conversations' = reg.conversations
            /\ actions' = reg.actions

\* Lines 86-91 applying the typing action for a message of no agent too.
_create_and_apply_set_typing_action_for_any_agent(agent, typing_agent, kwargs) ==
    IF Truthy(web_conversation) /\ "web_conversation_name" \notin kwargs
    THEN <<SetTypingAgent(conversation_name, typing_agent)>>
    ELSE <<>>

\* Lines 86-91: the SetTypingAgent action the call applies, if any; agent is
\* the agent of the message, typing_agent the agent passed to the action
\* (the other participant when the roles are reversed for the web) and
\* kwargs the keyword arguments passed as None.
_create_and_apply_set_typing_action(agent, typing_agent, kwargs) ==
    IF /\ agent # None
       /\ Truthy(web_conversation)
       /\ "web_conversation_name" \notin kwargs
    THEN <<SetTypingAgent(conversation_name, typing_agent)>>
    ELSE <<>>

\* How a call built of the one action a ends.
StatusOf(a) == IF Precondition(a, conversations) THEN "ok" ELSE "error"

\* Line 214 with `<=`: the maximum model is bumped too.
CanBumpModelInclusive(engine, max_engine) == engine <= max_engine

\* Line 214 stopping one model early: the last bump is replaced by removals.
CanBumpModelEarlyStop(engine, max_engine) == engine + 1 < max_engine

\* Line 214 comparing with the last model of the enumeration instead of
\* MAX_MODEL_ENGINE.
CanBumpModelBelowTop(engine, max_engine) == engine < CODELLAMA

\* Line 214 never bumping: messages are removed at once.
CanBumpModelNever(engine, max_engine) == FALSE

\* Line 214: a higher model is available.
CanBumpModel(engine, max_engine) == engine < max_engine

\* Line 221 giving up while a message could still be removed.
RemovedAllMessagesTooEarly(pairs) == Len(pairs) <= 2

\* Line 221: nothing is left to remove.
RemovedAllMessages(pairs) == Len(pairs) <= 1

\* Line 225: `index, _ = indices_and_messages.pop(1)`, the index of the
\* second pair ...
popped_index_first(pairs) == pairs[1]

popped_index(pairs) == pairs[2]

\* Line 225 reading the pair without popping it.
after_pop_keeps(pairs) == pairs

\* ... and the list after the pop.
after_pop(pairs) == RemoveAt(pairs, 2)

\* Lines 265-266 recording the failure as a comment in the conversation.
FailureActionAsComment(hidden, exception) ==
    AppendMessage(conversation_name,
        create_message(COMMENTER, 0, None, None, <<>>, NoModel))

\* Lines 265-266 recording the failure as a response without a message.
FailureActionAsResponse(hidden, exception) ==
    [Action("AppendChatgptResponse", conversation_name)
        EXCEPT !.hidden_messages = hidden, !.exception = exception]

\* Lines 265-266 recording the failure without the hidden list.
FailureActionWithoutHidden(hidden, exception) ==
    FailedChatgptResponse(conversation_name, 0, exception)

\* Lines 265-266: the action a failed call is recorded with.
FailureAction(hidden, exception) ==
    FailedChatgptResponse(conversation_name, hidden, exception)

\* Lines 260-261 sending what the first attempt sent.
SentIndicesOfFirstAttempt(conv, hidden_now, hidden_of_caller) ==
    get_chosen_indices_and_messages(conv, hidden_of_caller)

\* Lines 260-261: the messages sent, given the list passed as
\* hidden_messages on this attempt and the list the caller supplied.
SentIndices(conv, hidden_now, hidden_of_caller) ==
    get_chosen_indices_and_messages(conv, hidden_now)

\* Lines 192-202: the locals of the loop, set before its first LLM call, on
\* the conversation conv and with start_actions entries in the action list.
EnterLoop(t, hidden_messages, model_engine, conv, start_actions) ==
    /\ lists' = Append(lists, hidden_messages)
    /\ actual_hidden_messages' = Len(lists) + 1
    /\ indices_and_messages' = get_chosen_indices_and_messages(conv, hidden_messages)
    /\ openai_call_parameters' = model_engine
    /\ model' = IF model_engine # NoModel THEN model_engine ELSE DEFAULT_MODEL_ENGINE
    /\ call_tag' = t
    /\ pc' = "calling"
    /\ h' = [NoHistory EXCEPT
                !.start_messages = conv.messages,
                !.start_actions = start_actions,
                !.start_model = model',
                !.caller_hidden = hidden_messages]

\* How an operation that raised ends.
Fails(name) ==
    /\ last_op' = [name |-> name, status |-> "error", arg |-> None]
    /\ pc' = "idle"
    /\ UNCHANGED <<lists, locals, next_content, h>>

\* How an operation that raised before it changed anything ends.
Raised(name) ==
    /\ Fails(name)
    /\ UNCHANGED registry

\* Lines 179-202: get_and_append_assistant_message up to its first LLM call.
get_and_append_assistant_message(t, hidden_messages, model_engine) ==
    /\ CanStart
    /\ ops' = ops + 1
    /\ LET typing == _create_and_apply_set_typing_action(assistant_agent,
                                                          assistant_agent, {})
       IN /\ _create_and_apply_actions(typing)
          /\ IF ~conversation.exists
             THEN \* self.conversation is None: line 193 raises
                  Fails("get_and_append_assistant_message")
             ELSE /\ EnterLoop(t, hidden_messages, model_engine, conversation,
                               Len(actions) + Len(typing))
                  /\ last_op' = [name |-> "get_and_append_assistant_message",
                                 status |-> "running", arg |-> None]
                  /\ UNCHANGED next_content
    /\ UNCHANGED env

\* What the attempt in progress sends: line 260.
Payload ==
    SentIndices(conversation, lists[actual_hidden_messages], h.caller_hidden)

Attempted ==
    [h EXCEPT !.calls = @ + 1, !.last_model = model,
              !.last_hidden = lists[actual_hidden_messages],
              !.last_payload = Payload]

\* Lines 259-263, 269-278, 210-211: the LLM call returns a text.
ResponseReceived ==
    /\ pc = "calling"
    /\ h.calls < MaxCalls
    /\ LET messages == [j \in 1..Len(Payload) |->
                               conversation.messages[Payload[j] + 1]]
           message == create_message(ASSISTANT, next_content, call_tag,
                                     assistant_agent, messages, openai_call_parameters)
       IN /\ _create_and_apply_action(
                 AppendChatgptResponse(conversation_name, actual_hidden_messages, message))
          /\ h' = [Attempted EXCEPT !.returned = message]
    /\ next_content' = next_content + 1
    /\ pc' = "returned"
    /\ last_op' = [last_op EXCEPT !.status = "ok"]
    /\ UNCHANGED <<lists, env, locals, ops>>

\* Lines 213-226 trying again as it is after a rate limit, and bumping or
\* removing after the other failures.
ResponseFailedRetryingRateLimit(kind) ==
    /\ pc = "calling"
    /\ h.calls < MaxCalls
    /\ _create_and_apply_action(FailureAction(actual_hidden_messages, kind))
    /\ IF kind = "RATE_LIMIT"
       THEN /\ h' = [Attempted EXCEPT !.fails = @ + 1]
            /\ UNCHANGED <<lists, locals, pc, last_op>>
       ELSE IF CanBumpModel(model, MAX_MODEL_ENGINE)
       THEN /\ model' = get_next(model)
            /\ openai_call_parameters' = model'
            /\ h' = [Attempted EXCEPT !.fails = @ + 1, !.steps = Append(@, "bump")]
            /\ UNCHANGED <<lists, actual_hidden_messages, indices_and_messages,
                           call_tag, pc, last_op>>
       ELSE IF RemovedAllMessages(indices_and_messages)
       THEN /\ pc' = "raised"
            /\ last_op' = [last_op EXCEPT !.status = "error"]
            /\ h' = [Attempted EXCEPT !.fails = @ + 1]
            /\ UNCHANGED <<lists, locals>>
       ELSE /\ indices_and_messages' = after_pop(indices_and_messages)
            /\ lists' = [lists EXCEPT ![actual_hidden_messages] =
                            Append(@, popped_index(indices_and_messages))]
            /\ h' = [Attempted EXCEPT !.fails = @ + 1, !.steps = Append(@, "remove")]
            /\ UNCHANGED <<model, openai_call_parameters, actual_hidden_messages,
                           call_tag, pc, last_op>>
    /\ UNCHANGED <<env, ops, next_content>>

\* Lines 259-267, 213-226: the LLM call returns an exception.
ResponseFailed(kind) ==
    /\ pc = "calling"
    /\ h.calls < MaxCalls
    /\ _create_and_apply_action(FailureAction(actual_hidden_messages, kind))
    /\ IF CanBumpModel(model, MAX_MODEL_ENGINE)
       THEN /\ model' = get_next(model)
            /\ openai_call_parameters' = model'
            /\ h' = [Attempted EXCEPT !.fails = @ + 1, !.steps = Append(@, "bump")]
            /\ UNCHANGED <<lists, actual_hidden_messages, indices_and_messages,
                           call_tag, pc, last_op>>
       ELSE IF RemovedAllMessages(indices_and_messages)
       THEN /\ pc' = "raised"
            /\ last_op' = [last_op EXCEPT !.status = "error"]
            /\ h' = [Attempted EXCEPT !.fails = @ + 1]
            /\ UNCHANGED <<lists, locals>>
       ELSE /\ indices_and_messages' = after_pop(indices_and_messages)
            /\ lists' = [lists EXCEPT ![actual_hidden_messages] =
                            Append(@, popped_index(indices_and_messages))]
            /\ h' = [Attempted EXCEPT !.fails = @ + 1, !.steps = Append(@, "remove")]
            /\ UNCHANGED <<model, openai_call_parameters, actual_hidden_messages,
                           call_tag, pc, last_op>>
    /\ UNCHANGED <<env, ops, next_content>>

\* An operation made of the one action a: it returns, or the validation of
\* the action raises.
SingleAction(name, a) ==
    /\ CanStart
    /\ ops' = ops + 1
    /\ _create_and_apply_action(a)
    /\ last_op' = [name |-> name, status |-> StatusOf(a), arg |-> a.tag]
    /\ pc' = "idle"
    /\ UNCHANGED <<lists, env, locals, h>>

\* Lines 93-94.
create_conversation ==
    /\ SingleAction("create_conversation",
                    CreateConversation(conversation_name, participants))
    /\ UNCHANGED next_content

\* Lines 96-97.
add_participants(agents) ==
    /\ SingleAction("add_participants",
                    AddParticipantsToConversation(conversation_name, agents))
    /\ UNCHANGED next_content

\* Lines 99-106 adding the manager's participants whether they are missing
\* or not.
initialize_conversation_if_needed_adding_all ==
    /\ CanStart
    /\ ops' = ops + 1
    /\ pc' = "idle"
    /\ IF ~conversation.exists
       THEN /\ _create_and_apply_action(
                   CreateConversation(conversation_name, participants))
            /\ last_op' = [name |-> "initialize_conversation_if_needed",
                           status |-> "True", arg |-> None]
       ELSE /\ _create_and_apply_action(
                   AddParticipantsToConversation(conversation_name, participants))
            /\ last_op' = [name |-> "initialize_conversation_if_needed",
                           status |-> "False", arg |-> None]
    /\ UNCHANGED <<lists, env, locals, next_content, h>>

\* Lines 99-106; the status is the value returned.
initialize_conversation_if_needed ==
    /\ CanStart
    /\ ops' = ops + 1
    /\ pc' = "idle"
    /\ IF ~conversation.exists
       THEN /\ _create_and_apply_action(
                   CreateConversation(conversation_name, participants))
            /\ last_op' = [name |-> "initialize_conversation_if_needed",
                           status |-> "True", arg |-> None]
       ELSE /\ IF participants \ conversation.participants # {}
               THEN _create_and_apply_action(
                        AddParticipantsToConversation(conversation_name,
                            participants \ conversation.participants))
               ELSE UNCHANGED registry
            /\ last_op' = [name |-> "initialize_conversation_if_needed",
                           status |-> "False", arg |-> None]
    /\ UNCHANGED <<lists, env, locals, next_content, h>>

\* Lines 126-131 attributing the SURROGATE messages to the user.
AgentOfRoleSurrogateOfUser(role) ==
    IF role \in {ASSISTANT, SYSTEM} THEN assistant_agent
    ELSE IF role \in {USER, SURROGATE} THEN user_agent
    ELSE None

\* Lines 126-131: the agent a message of the role is attributed to.
AgentOfRole(role) ==
    IF role \in {ASSISTANT, SURROGATE, SYSTEM} THEN assistant_agent
    ELSE IF role = USER THEN user_agent
    ELSE None

\* Lines 108-135: create_and_append_message.  The typing action (line 132),
\* then the message appended with its adjustment for the web (lines
\* 112-117); get_other_participant is called when the roles are reversed and
\* the manager has a web conversation (lines 90 and 114), and where it
\* raises no action has been created yet.  kwargs are the keyword arguments
\* passed as None: they reach both the typing call and the action (lines
\* 132-135, 117).
create_and_append_message(role, t, reverse_roles_for_web, kwargs) ==
    /\ CanStart
    /\ ops' = ops + 1
    /\ Len(conversation.messages) < MaxLen
    /\ pc' = "idle"
    /\ LET agent == AgentOfRole(role)
           adjusted == reverse_roles_for_web /\ Truthy(web_conversation)
       IN \E other \in IF adjusted
                       THEN get_other_participant(web_conversation, agent)
                       ELSE {None} :
            IF other = Raises
            THEN /\ last_op' = [name |-> "create_and_append_message",
                                status |-> "error", arg |-> None]
                 /\ UNCHANGED registry
            ELSE LET message == create_message(role, next_content, t, agent,
                                               <<>>, NoModel)
                     append == [AppendMessage(conversation_name, message)
                                   EXCEPT !.adjust_message_for_web = other,
                                          !.web_conversation_name =
                                              IF "web_conversation_name" \in kwargs
                                              THEN PassedNone ELSE @]
                     typing == _create_and_apply_set_typing_action(agent,
                                   IF reverse_roles_for_web THEN other ELSE agent,
                                   kwargs)
                 IN /\ _create_and_apply_actions(typing \o <<append>>)
                    /\ last_op' = [name |-> "create_and_append_message",
                                   status |-> StatusOf(append), arg |-> None]
    /\ next_content' = next_content + 1
    /\ UNCHANGED <<lists, env, locals, h>>

\* Lines 137-146: the tag defaults to 'system_prompt'.
append_system_message(t, reverse_roles_for_web, kwargs) ==
    create_and_append_message(SYSTEM, IF t = None THEN "system_prompt" ELSE t,
                              reverse_roles_for_web, kwargs)

\* Lines 280-286.
reset_back_to_tag(t) ==
    /\ SingleAction("reset_back_to_tag", ResetToTag(conversation_name, t))
    /\ UNCHANGED next_content

\* Lines 288-292.
delete_messages(message_designation) ==
    /\ SingleAction("delete_messages",
                    DeleteMessages(conversation_name, message_designation))
    /\ UNCHANGED next_content

\* Lines 294-302.
replace_last_response(t) ==
    /\ SingleAction("replace_last_response",
           ReplaceLastResponse(conversation_name,
               create_message(SURROGATE, next_content, t, assistant_agent, <<>>, NoModel)))
    /\ next_content' = next_content + 1

\* Lines 304-314.
copy_messages_from_another_conversations(source, message_designation) ==
    /\ Len(conversation.messages) < MaxLen
    /\ SingleAction("copy_messages_from_another_conversations",
           CopyMessagesBetweenConversations(conversation_name, source,
                                            message_designation))
    /\ UNCHANGED next_content

\* Lines 229-232 without the assertion on the last action.
asserts_of_regenerate_message_only(mine, msgs) ==
    /\ Len(mine) > 0
    /\ Len(msgs) > 0
    /\ msgs[Len(msgs)].role = ASSISTANT

\* Lines 229-232: the last action of the conversation is an
\* AppendChatgptResponse and its last message is of role ASSISTANT (the reads
\* with [-1] raise on an empty list).
asserts_of_regenerate(mine, msgs) ==
    /\ Len(mine) > 0
    /\ mine[Len(mine)].type = "AppendChatgptResponse"
    /\ Len(msgs) > 0
    /\ msgs[Len(msgs)].role = ASSISTANT

\* Line 241 passing no hidden messages.
hidden_messages_of_nothing(last_action) == <<>>

\* Lines 241, 192: hidden_messages=last_action.hidden_messages, converted to
\* a list (None to the empty list).
hidden_messages_of(last_action) ==
    IF last_action.hidden_messages = 0 THEN <<>>
    ELSE lists[last_action.hidden_messages]

\* Lines 228-242: regenerate_previous_response up to the first LLM call of
\* the acquisition it re-runs.
regenerate_previous_response ==
    /\ CanStart
    /\ ops' = ops + 1
    /\ LET mine == get_actions_for_conversation(actions, conversation_name)
           msgs == conversation.messages
       IN IF ~asserts_of_regenerate(mine, msgs)
          THEN \* lines 229-232 raise
               Raised("regenerate_previous_response")
          ELSE LET last_action == mine[Len(mine)]
                   last_message == msgs[Len(msgs)]
                   delete == DeleteMessages(conversation_name, -1)
                   after == Apply(delete, conversations)
                   typing == _create_and_apply_set_typing_action(
                                 assistant_agent, assistant_agent, {})
               IN /\ _create_and_apply_actions(<<delete>> \o typing)
                  /\ EnterLoop(last_message.tag, hidden_messages_of(last_action),
                               last_message.openai_call_parameters,
                               after[conversation_name],
                               Len(actions) + 1 + Len(typing))
                  /\ last_op' = [name |-> "regenerate_previous_response",
                                 status |-> "running", arg |-> None]
                  /\ UNCHANGED next_content
    /\ UNCHANGED env

\* The tags reset_back_to_tag is called with.
ResetTags == {"t", "system_prompt", "draft"}
\* The indices delete_messages is called with.
Designations == {-1, 0}

\* The operations on the registry that issue no LLM call.
RegistryOperation ==
    \/ create_conversation
    \/ add_participants({"Director"})
    \/ initialize_conversation_if_needed
    \/ \E role \in Role \ {SYSTEM}, t \in Tags :
           create_and_append_message(role, t, FALSE, {})
    \/ \E t \in Tags : append_system_message(t, FALSE, {})
    \/ \E t \in ResetTags : reset_back_to_tag(t)
    \/ \E d \in Designations : delete_messages(d)
    \/ \E t \in Tags : replace_last_response(t)
    \/ copy_messages_from_another_conversations("other", 0)

\* The LLM gateway answers the call that is out: with a text, or with a
\* failure (here of the kind the ladder is made for).
GatewayAnswers ==
    \/ ResponseReceived
    \/ ResponseFailed("CONTEXT_TOO_LONG")

\* The same, the failure being of any kind.
GatewayAnswersAnyKind ==
    \/ ResponseReceived
    \/ \E kind \in FailureKinds : ResponseFailed(kind)

\* The indices of the conversation, and the lists of indices a caller hides.
Indices == 0..(Len(conversation.messages) - 1)

\* Any operation of the manager; an acquisition hides nothing or one of the
\* first two messages and names no model or GPT4 (NextLoop takes every
\* hidden set and every model), on a conversation of MaxLen messages at
\* most.
Next ==
    \/ RegistryOperation
    \/ \E t \in Tags, S \in {{}} \cup {{i} : i \in Indices \cap {0, 1}},
          engine \in {NoModel, GPT4} :
           /\ Len(conversation.messages) <= MaxLen
           /\ get_and_append_assistant_message(t, SetToSeq(S), engine)
    \/ regenerate_previous_response
    \/ GatewayAnswers

\* The manager's first operation is an acquisition, with any arguments.
NextLoop ==
    \/ \E t \in Tags, S \in SUBSET Indices, engine \in ModelEngine \cup {NoModel} :
           /\ last_op.name = "__init__"
           /\ get_and_append_assistant_message(t, SetToSeq(S), engine)
    \/ GatewayAnswers

\* The configuration is any pair of models.
InitLoop == Init

\* One configuration.
InitOne ==
    /\ Init
    /\ DEFAULT_MODEL_ENGINE = GPT35_TURBO
    /\ MAX_MODEL_ENGINE = GPT35_TURBO_16

Spec == InitOne /\ [][Next]_vars

LoopSpec == InitLoop /\ [][NextLoop]_vars

\* The LLM gateway is synchronous and reports a timeout as a failure: a
\* call that is out is answered.  One default model: the loop may still
\* start at any model.
InitFair == InitLoop /\ DEFAULT_MODEL_ENGINE = GPT35_TURBO

FairLoopSpec == InitFair /\ [][NextLoop]_vars /\ WF_vars(GatewayAnswers)

\* The manager's first operation is an acquisition and the gateway fails in
\* every way; the maximum model is the default one or GPT4.
NextKinds ==
    \/ \E S \in SUBSET Indices, engine \in {NoModel, GPT4} :
           /\ last_op.name = "__init__"
           /\ get_and_append_assistant_message(None, SetToSeq(S), engine)
    \/ GatewayAnswersAnyKind

InitKinds ==
    /\ Init
    /\ DEFAULT_MODEL_ENGINE = GPT35_TURBO
    /\ MAX_MODEL_ENGINE \in {GPT35_TURBO, GPT4}

KindsSpec == InitKinds /\ [][NextKinds]_vars

\* The registry a manager with or without a web conversation is
\* constructed on: as in Init, the earlier actions having mirrored their
\* messages to the web conversation where the registry holds one.
InitMirrorActions(n, web, mirror) ==
    <<CreateConversation("other", participants), AppendMessage("other", OtherMessage)>>
    \o (IF mirror THEN <<CreateConversation("web", participants)>> ELSE <<>>)
    \o (IF n < 0 THEN <<>>
        ELSE [i \in 1..(n + 1) |->
                 [InitActions(n)[i + 2] EXCEPT !.web_conversation_name = web]])

InitMirror ==
    /\ web_conversation_name \in {None, "web"}
    /\ \E n \in -1..MaxLen, mirror \in BOOLEAN :
        /\ actions = InitMirrorActions(n, web_conversation_name, mirror)
        /\ conversations = Replay(actions, Len(actions), EmptyRegistry)
        /\ next_content = IF n < 0 THEN 1 ELSE n + 1
    /\ lists = <<>>
    /\ MAX_MODEL_ENGINE = GPT35_TURBO_16
    /\ DEFAULT_MODEL_ENGINE = GPT35_TURBO
    /\ pc = "idle"
    /\ model = NoModel
    /\ openai_call_parameters = NoModel
    /\ actual_hidden_messages = 0
    /\ indices_and_messages = <<>>
    /\ call_tag = None
    /\ last_op = [name |-> "__init__", status |-> "ok", arg |-> None]
    /\ ops = 0
    /\ h = NoHistory
    /\ threads = NoThreads
    /\ locks = NoLocks
    /\ NoHandoff

\* The operations that append to the conversation, with the roles reversed
\* for the web or not.
NextMirror ==
    \/ \E role \in Role, reverse_roles_for_web \in BOOLEAN, kwargs \in Kwargs :
           create_and_append_message(role, None, reverse_roles_for_web, kwargs)
    \/ /\ Len(conversation.messages) <= MaxLen
       /\ get_and_append_assistant_message(None, <<>>, NoModel)
    \/ regenerate_previous_response
    \/ GatewayAnswers

MirrorSpec == InitMirror /\ [][NextMirror]_vars

\* The conversation [System, User, Assistant, User] of an exchange under
\* way, and the registry holding it.
ScenarioMessage(i) ==
    IF i = 1 THEN InitMessage(1)
    ELSE IF i = 3
    THEN create_message(ASSISTANT, i, None, assistant_agent, <<>>, NoModel)
    ELSE create_message(USER, i, None, user_agent, <<>>, NoModel)

ScenarioMessages == [i \in 1..4 |-> ScenarioMessage(i)]

ScenarioActions ==
    <<CreateConversation("other", participants), AppendMessage("other", OtherMessage),
      CreateConversation(conversation_name, participants)>>
    \o [i \in 1..4 |-> AppendMessage(conversation_name, ScenarioMessage(i))]

\* The manager is constructed on that registry, with any configuration.
InitScenario ==
    /\ actions = ScenarioActions
    /\ conversations = Replay(actions, Len(actions), EmptyRegistry)
    /\ next_content = Len(ScenarioMessages) + 1
    /\ lists = <<>>
    /\ MAX_MODEL_ENGINE \in ModelEngine
    /\ DEFAULT_MODEL_ENGINE \in ModelEngine
    /\ web_conversation_name = None
    /\ pc = "idle"
    /\ model = NoModel
    /\ openai_call_parameters = NoModel
    /\ actual_hidden_messages = 0
    /\ indices_and_messages = <<>>
    /\ call_tag = None
    /\ last_op = [name |-> "__init__", status |-> "ok", arg |-> None]
    /\ ops = 0
    /\ h = NoHistory
    /\ threads = NoThreads
    /\ locks = NoLocks
    /\ NoHandoff

ScenarioSpec == InitScenario /\ [][NextLoop]_vars

(***************************************************************************)
(* Several managers on one registry.  Each manager runs on a thread of its *)
(* own, bound to a conversation name.  The registry applies an action in   *)
(* three steps, validate, mutate, log, holding the lock of the action's    *)
(* conversation name; the recovery loop of a manager blocks on its call.   *)
(***************************************************************************)
\* The lock of a conversation name is taken by one thread at a time.
LockAlwaysFree(name) == TRUE

LockFree(name) == locks[name] = {}

\* The actions a manager applies on its conversation outside the loop: a
\* message appended, the last message deleted.
ThreadActions(m) ==
    {AppendMessage(NameOf(m), create_message(USER, ManagerNo(m), None, user_agent,
                                             <<>>, NoModel)),
     DeleteMessages(NameOf(m), -1)}

\* Lines 74-84: the manager creates an action on its conversation and
\* hands it to the registry.
StartAction(m) ==
    /\ threads[m].pc = "idle"
    /\ ops < MaxOps + 1
    /\ \E a \in ThreadActions(m) :
          threads' = [threads EXCEPT ![m] = [@ EXCEPT !.pc = "wants",
                                                      !.pending = <<WithWeb(a)>>]]
    /\ ops' = ops + 1
    /\ UNCHANGED <<registry, locks>>

\* Lines 259-263: the loop issues its LLM call and blocks on it.
IssueCall(m) ==
    /\ threads[m].pc = "idle"
    /\ ops < MaxOps + 1
    /\ threads' = [threads EXCEPT ![m] = [@ EXCEPT !.pc = "calling",
                                                   !.outstanding = @ + 1]]
    /\ ops' = ops + 1
    /\ UNCHANGED <<registry, locks>>

\* Lines 210-214: the call returns a text or fails, and the loop hands the
\* action that records it to the registry.
CallReturns(m) ==
    /\ threads[m].pc = "calling"
    /\ \E a \in {AppendChatgptResponse(NameOf(m), 0,
                     create_message(ASSISTANT, ManagerNo(m), None, assistant_agent,
                                    <<>>, NoModel)),
                 FailedChatgptResponse(NameOf(m), 0, "TRANSIENT")} :
          threads' = [threads EXCEPT ![m] = [@ EXCEPT !.pc = "wants",
                                                      !.pending = <<WithWeb(a)>>,
                                                      !.outstanding = @ - 1]]
    /\ UNCHANGED <<registry, locks, ops>>

\* apply_action: the thread takes the lock of the action's conversation.
Acquire(m) ==
    /\ threads[m].pc = "wants"
    /\ LockFree(threads[m].pending[1].conversation_name)
    /\ locks' = [locks EXCEPT ![threads[m].pending[1].conversation_name] = @ \cup {m}]
    /\ threads' = [threads EXCEPT ![m] = [@ EXCEPT !.pc = "locked"]]
    /\ UNCHANGED <<registry, ops>>

\* (a) the action validates its precondition; a failed validation raises,
\* the lock is released and nothing has changed.
Validate(m) ==
    /\ threads[m].pc = "locked"
    /\ IF Precondition(threads[m].pending[1], conversations)
       THEN /\ threads' = [threads EXCEPT ![m] = [@ EXCEPT !.pc = "validated"]]
            /\ UNCHANGED locks
       ELSE /\ threads' = [threads EXCEPT ![m] = IdleThread]
            /\ locks' = [locks EXCEPT ![threads[m].pending[1].conversation_name] = @ \ {m}]
    /\ UNCHANGED <<registry, ops>>

\* (b) the action mutates its conversation.
Mutate(m) ==
    /\ threads[m].pc = "validated"
    /\ conversations' = Apply(threads[m].pending[1], conversations)
    /\ threads' = [threads EXCEPT ![m] = [@ EXCEPT !.pc = "mutated"]]
    /\ UNCHANGED <<actions, locks, ops>>

\* (c) the action appends itself to the action list, and the lock is
\* released.
Log(m) ==
    /\ threads[m].pc = "mutated"
    /\ actions' = Append(actions, threads[m].pending[1])
    /\ threads' = [threads EXCEPT ![m] = IdleThread]
    /\ locks' = [locks EXCEPT ![threads[m].pending[1].conversation_name] = @ \ {m}]
    /\ UNCHANGED <<conversations, ops>>

\* A step of one of the threads; the single manager's own state is not in
\* play.
ThreadStep(m) ==
    /\ \/ StartAction(m)
       \/ IssueCall(m)
       \/ CallReturns(m)
       \/ Acquire(m)
       \/ Validate(m)
       \/ Mutate(m)
       \/ Log(m)
    /\ UNCHANGED <<lists, MAX_MODEL_ENGINE, DEFAULT_MODEL_ENGINE, web_conversation_name,
                   locals, pc, last_op, next_content, h, handoff>>

NextShared == \E m \in Managers : ThreadStep(m)

\* The registry holds both conversations, "primary" with its system message
\* at most.
InitShared ==
    /\ Init
    /\ MAX_MODEL_ENGINE = GPT4
    /\ DEFAULT_MODEL_ENGINE = GPT35_TURBO
    /\ conversation.exists
    /\ Len(conversation.messages) <= 1

SharedSpec == InitShared /\ [][NextShared]_vars

(***************************************************************************)
(* A conversation other managers created.  The manager is constructed on a *)
(* registry in which its conversation is absent, or was created by a       *)
(* manager with agents of its own, and calls operations that issue no LLM  *)
(* call.                                                                   *)
(***************************************************************************)
\* The agents of the managers that share the conversation.
Agents == participants \cup {"Director"}

\* The action list of Init, the conversation created with the agents given.
InitActionsOf(n, agents) ==
    <<CreateConversation("other", participants), AppendMessage("other", OtherMessage)>>
    \o (IF n < 0 THEN <<>>
        ELSE <<CreateConversation(conversation_name, agents)>>
             \o [i \in 1..n |-> AppendMessage(conversation_name, InitMessage(i))])

InitNeeded ==
    /\ \E n \in -1..MaxLen, agents \in SUBSET Agents :
        /\ actions = InitActionsOf(n, agents)
        /\ conversations = Replay(actions, Len(actions), EmptyRegistry)
        /\ next_content = IF n < 0 THEN 1 ELSE n + 1
    /\ lists = <<>>
    /\ MAX_MODEL_ENGINE = GPT35_TURBO_16
    /\ DEFAULT_MODEL_ENGINE = GPT35_TURBO
    /\ web_conversation_name = None
    /\ pc = "idle"
    /\ model = NoModel
    /\ openai_call_parameters = NoModel
    /\ actual_hidden_messages = 0
    /\ indices_and_messages = <<>>
    /\ call_tag = None
    /\ last_op = [name |-> "__init__", status |-> "ok", arg |-> None]
    /\ ops = 0
    /\ h = NoHistory
    /\ threads = NoThreads
    /\ locks = NoLocks
    /\ NoHandoff

NextNeeded == RegistryOperation

NeededSpec == InitNeeded /\ [][NextNeeded]_vars

(***************************************************************************)
(* The model tables.  A model is asked for a model with more strength or   *)
(* more context, and the model returned is asked in turn: `model` is the   *)
(* receiver, h.start_model the first receiver and h.steps the models        *)
(* returned so far.                                                        *)
(***************************************************************************)
\* Lines 42-52: the entry of the table, or ValueError when it is None.
get_model_with_more(name, table) ==
    /\ pc = "idle"
    /\ ops < MaxOps + MaxLen
    /\ ops' = ops + 1
    /\ IF table[model] = NoModel
       THEN /\ last_op' = [name |-> name, status |-> "error", arg |-> None]
            /\ UNCHANGED <<model, h>>
       ELSE /\ model' = table[model]
            /\ h' = [h EXCEPT !.steps = Append(@, model')]
            /\ last_op' = [name |-> name, status |-> "ok", arg |-> None]
    /\ UNCHANGED <<registry, lists, env, openai_call_parameters,
                   actual_hidden_messages, indices_and_messages, call_tag, pc,
                   next_content>>

\* Lines 42-46.
get_model_with_more_strength ==
    get_model_with_more("get_model_with_more_strength", MODELS_TO_MORE_STRENGTH)

\* Lines 48-52.
get_model_with_more_context ==
    get_model_with_more("get_model_with_more_context", MODELS_TO_MORE_CONTEXT)

NextTables ==
    \/ get_model_with_more_strength
    \/ get_model_with_more_context

\* The first receiver is any member of ModelEngine.
InitTables ==
    /\ model \in ModelEngine
    /\ h = [NoHistory EXCEPT !.start_model = model]
    /\ actions = <<>>
    /\ conversations = EmptyRegistry
    /\ next_content = 1
    /\ lists = <<>>
    /\ MAX_MODEL_ENGINE = GPT4
    /\ DEFAULT_MODEL_ENGINE = GPT35_TURBO
    /\ web_conversation_name = None
    /\ pc = "idle"
    /\ openai_call_parameters = NoModel
    /\ actual_hidden_messages = 0
    /\ indices_and_messages = <<>>
    /\ call_tag = None
    /\ last_op = [name |-> "__init__", status |-> "ok", arg |-> None]
    /\ ops = 0
    /\ threads = NoThreads
    /\ locks = NoLocks
    /\ NoHandoff

TablesSpec == InitTables /\ [][NextTables]_vars

(***************************************************************************)
(* Properties of the recovery loop.                                        *)
(***************************************************************************)
Terminal == pc \in {"returned", "raised"}
InLoop == pc \in {"calling", "returned", "raised"}

\* The conversation as it was when the invocation started.
StartConversation ==
    [exists |-> TRUE, messages |-> h.start_messages, participants |-> {}]

\* k: the indices visible when the invocation started.
StartVisible == get_chosen_indices_and_messages(StartConversation, h.caller_hidden)

\* m: the stronger models the loop may still bump to from its first model.
StrongerModels ==
    IF h.start_model < MAX_MODEL_ENGINE THEN MAX_MODEL_ENGINE - h.start_model ELSE 0

\* The steps of one kind taken so far.
StepsOf(kind) == {i \in 1..Len(h.steps) : h.steps[i] = kind}

\* The indices the loop itself has hidden, in the order it hid them.
HiddenByLoop ==
    SubSeq(lists[actual_hidden_messages], Len(h.caller_hidden) + 1,
           Len(lists[actual_hidden_messages]))

\* The actions logged by the invocation.
LoggedByInvocation == SubSeq(actions, h.start_actions + 1, Len(actions))

CountOf(log, type) == Cardinality({i \in 1..Len(log) : log[i].type = type})

\* C1: a call of get_and_append_assistant_message that is under way always
\* reaches a terminal state, a returned message or the fatal error, whatever
\* the gateway answers.
C1_Terminates == (pc = "calling") ~> Terminal

\* The fatal error, after a gateway that failed on each of at least 5 calls.
C1_Witness == pc = "raised" /\ h.fails = h.calls /\ h.calls >= 5

\* C2: with k >= 1 visible messages and m stronger models, an invocation
\* has issued at most m + k LLM calls when it ends.
C2_CallBound ==
    (Terminal /\ Len(StartVisible) >= 1)
        => h.calls <= StrongerModels + Len(StartVisible)

\* The bound is met: m >= 2, k >= 2 and m + k calls.
C2_Witness ==
    /\ pc = "raised"
    /\ StrongerModels >= 2
    /\ Len(StartVisible) >= 2
    /\ h.calls = StrongerModels + Len(StartVisible)

\* C3: when the invocation ends with the fatal error, the messages of the
\* conversation are those it had when the call started.
C3_FatalLeavesConversation ==
    pc = "raised" => conversation.messages = h.start_messages

\* The fatal error on a conversation of 3 messages, after messages were hidden.
C3_Witness ==
    /\ pc = "raised"
    /\ Len(h.start_messages) = 3
    /\ Cardinality(StepsOf("remove")) = 2

\* The indices sent after r removals: the visible indices of the start
\* without those at (Python) positions 1..r.
VisibleAfter(r) ==
    SetToSeq({StartVisible[j] :
                 j \in ({1} \cup ((r + 2)..Len(StartVisible))) \cap DOMAIN StartVisible})

C5_FailuresLogged ==
    InLoop =>
        /\ CountOf(LoggedByInvocation, "FailedChatgptResponse") = h.fails
        /\ Len(LoggedByInvocation) = h.fails + (IF pc = "returned" THEN 1 ELSE 0)
        /\ h.calls = h.fails + (IF pc = "returned" THEN 1 ELSE 0)

\* A message returned after 3 failed calls.
C5_Witness == pc = "returned" /\ h.fails = 3

\* C6: on a conversation of at least one message, every index the loop
\* hides is >= 1, and unless the caller hid index 0 every attempt sends the
\* message at index 0 first.
C6_SystemMessageKept ==
    (InLoop /\ Len(h.start_messages) >= 1) =>
        /\ \A i \in Range(HiddenByLoop) : i >= 1
        /\ (h.calls >= 1 /\ 0 \notin Range(h.caller_hidden))
               => (h.last_payload # <<>> /\ h.last_payload[1] = 0)

\* The loop hid indices 1 and 2 and sent the message at index 0 alone.
C6_Witness ==
    /\ pc = "raised"
    /\ h.caller_hidden = <<>>
    /\ HiddenByLoop = <<1, 2>>
    /\ h.last_payload = <<0>>

\* No bump follows a removal.
BumpsBeforeRemovals(steps) ==
    \A i, j \in 1..Len(steps) : (i < j /\ steps[i] = "remove") => steps[j] = "remove"

\* C7: a failed call made below the maximum model changes the model only
\* and leaves the hidden list as it is; a message is hidden only after a
\* failed call made at (or above) the maximum model; all bumps precede all
\* removals.
C7_EscalationFirst ==
    [][(pc = "calling" /\ h'.fails = h.fails + 1) =>
          /\ (model < MAX_MODEL_ENGINE)
                => (lists' = lists /\ model' > model /\ pc' = "calling"
                    /\ indices_and_messages' = indices_and_messages)
          /\ (lists' # lists) => (model >= MAX_MODEL_ENGINE /\ model' = model)
          /\ BumpsBeforeRemovals(h'.steps)]_vars

\* Two bumps, then two removals.
C7_Witness == h.steps = <<"bump", "bump", "remove", "remove">>

\* C8: the fatal error is raised only after a call made with a model at the
\* maximum (no bump left) and with at most one message sent, and once it is
\* raised no LLM call is out.
C8_FatalOnlyWhenExhausted ==
    pc = "raised" =>
        /\ h.calls >= 1
        /\ h.last_model >= MAX_MODEL_ENGINE
        /\ Len(h.last_payload) <= 1
        /\ ~ENABLED GatewayAnswers

\* The fatal error after bumps and removals, the last call sending one message.
C8_Witness ==
    /\ pc = "raised"
    /\ Len(h.last_payload) = 1
    /\ StepsOf("bump") # {}
    /\ StepsOf("remove") # {}

(***************************************************************************)
(* Properties of the registry.                                             *)
(***************************************************************************)
\* C9: replaying the action list on an empty registry gives the current
\* contents of every conversation.
C9_ReplayDeterminism ==
    Replay(actions, Len(actions), EmptyRegistry) = conversations

\* A response was regenerated after a failed call: the list holds failed and
\* successful responses and a deletion.
C9_Witness ==
    /\ pc = "returned"
    /\ CountOf(actions, "FailedChatgptResponse") >= 1
    /\ CountOf(actions, "AppendChatgptResponse") = 2
    /\ CountOf(actions, "DeleteMessages") = 1

\* C10: a reset to a tag that no message bears and an append to a
\* conversation that does not exist fail with an error, and an operation
\* that fails on its validation leaves every conversation as it was.
C10_ValidateThenApply ==
    [][(ops' = ops + 1) =>
          /\ (/\ last_op'.name = "reset_back_to_tag"
              /\ PositionsOfTag(conversation, last_op'.arg) = {})
                 => last_op'.status = "error"
          /\ (/\ last_op'.name = "create_and_append_message"
              /\ ~conversation.exists)
                 => last_op'.status = "error"
          /\ (last_op'.status = "error") => conversations' = conversations]_vars

\* A reset to a tag that none of the 3 messages of the conversation bears
\* has failed.
C10_Witness ==
    /\ last_op.name = "reset_back_to_tag"
    /\ last_op.status = "error"
    /\ Len(conversation.messages) = 3

C12_FailureLeavesConversations ==
    [][(pc = "calling" /\ h'.fails = h.fails + 1) =>
          /\ conversations' = conversations
          /\ Len(actions') = Len(actions) + 1
          /\ LET a == actions'[Len(actions')]
             IN /\ a.type = "FailedChatgptResponse"
                /\ a.conversation_name = conversation_name
                /\ a.hidden_messages = actual_hidden_messages
                /\ lists[a.hidden_messages] = h'.last_hidden
                /\ a.exception \in FailureKinds]_vars

\* Two calls failed on a conversation of 3 messages of which the caller hid
\* some; the conversation is as it was.
C12_Witness ==
    /\ pc = "calling"
    /\ h.fails = 2
    /\ h.caller_hidden # <<>>
    /\ Len(h.start_messages) = 3
    /\ CountOf(LoggedByInvocation, "FailedChatgptResponse") = 2

\* The conversation and its last AppendChatgptResponse-to-be-regenerated as
\* they were when regenerate_previous_response was called: the action list
\* up to the deletion, replayed.
BeforeRegenerate ==
    Replay(actions, h.start_actions - 1, EmptyRegistry)[conversation_name].messages

LastActionBeforeRegenerate ==
    LET mine == get_actions_for_conversation(
                    SubSeq(actions, 1, h.start_actions - 1), conversation_name)
    IN mine[Len(mine)]

\* C13: regenerate_previous_response called on a conversation whose last
\* action is an AppendChatgptResponse and whose last message is of role
\* ASSISTANT deletes that message only and enters the loop with the hidden
\* list recorded in the action, the call parameters recorded on the message
\* and its tag; when it returns, the conversation is as long as before the
\* call, its earlier messages are unchanged and its last message is the new
\* ASSISTANT message, bearing the tag of the deleted one.
C13_Regenerate ==
    (InLoop /\ last_op.name = "regenerate_previous_response") =>
        LET before == BeforeRegenerate
            last_action == LastActionBeforeRegenerate
            deleted == before[Len(before)]
            kept == SubSeq(before, 1, Len(before) - 1)
        IN /\ last_action.type = "AppendChatgptResponse"
           /\ last_action.message = deleted
           /\ deleted.role = ASSISTANT
           /\ actions[h.start_actions] = DeleteMessages(conversation_name, -1)
           /\ h.start_messages = kept
           /\ h.caller_hidden = lists[last_action.hidden_messages]
           /\ h.start_model = IF deleted.openai_call_parameters # NoModel
                              THEN deleted.openai_call_parameters
                              ELSE DEFAULT_MODEL_ENGINE
           /\ (h.calls = 0) => openai_call_parameters = deleted.openai_call_parameters
           /\ call_tag = deleted.tag
           /\ (pc = "returned") =>
                  /\ Len(conversation.messages) = Len(before)
                  /\ conversation.messages = Append(kept, h.returned)
                  /\ h.returned.role = ASSISTANT
                  /\ h.returned.tag = deleted.tag
                  /\ h.returned # deleted

\* A response that was acquired with messages hidden has been regenerated.
C13_Witness ==
    /\ pc = "returned"
    /\ last_op.name = "regenerate_previous_response"
    /\ h.caller_hidden # <<>>
    /\ Len(conversation.messages) = 4

\* C14: regenerate_previous_response called when the last action of the
\* conversation is not an AppendChatgptResponse (or there is none), or its
\* last message is not of role ASSISTANT (or there is none), raises and
\* leaves the conversations, the action list and the hidden lists as they
\* were, and no LLM call is out.
C14_RegeneratePrecondition ==
    [][(/\ ops' = ops + 1
        /\ last_op'.name = "regenerate_previous_response"
        /\ LET mine == get_actions_for_conversation(actions, conversation_name)
               msgs == conversation.messages
           IN \/ Len(mine) = 0
              \/ mine[Len(mine)].type # "AppendChatgptResponse"
              \/ Len(msgs) = 0
              \/ msgs[Len(msgs)].role # ASSISTANT)
        => /\ last_op'.status = "error"
           /\ conversations' = conversations
           /\ actions' = actions
           /\ lists' = lists
           /\ pc' = "idle"
           /\ h' = h]_vars

\* The call was refused on a conversation whose last message is of role
\* ASSISTANT and was appended by an AppendMessage action.
C14_Witness ==
    /\ last_op.name = "regenerate_previous_response"
    /\ last_op.status = "error"
    /\ pc = "idle"
    /\ Len(conversation.messages) >= 1
    /\ conversation.messages[Len(conversation.messages)].role = ASSISTANT
    /\ actions[Len(actions)].type = "AppendMessage"

(***************************************************************************)
(* Scenarios.                                                              *)
(***************************************************************************)
\* C15: on the conversation [System, User] with nothing hidden by the
\* caller and a first model that cannot be bumped, while every call fails:
\* the first call sends both messages, its failure hides message 1, the
\* second call sends the System message alone, and its failure raises the
\* fatal error: 2 calls, and the conversation still holds its 2 messages.
C15_TwoMessagesAllFailing ==
    (/\ InLoop
     /\ h.start_messages = <<InitMessage(1), InitMessage(2)>>
     /\ h.caller_hidden = <<>>
     /\ h.start_model >= MAX_MODEL_ENGINE
     /\ h.fails = h.calls)
    => /\ h.calls <= 2
       /\ model = h.start_model
       /\ (h.calls = 0) => (pc = "calling" /\ Payload = <<0, 1>>)
       /\ (h.calls = 1) =>
              /\ pc = "calling"
              /\ h.last_payload = <<0, 1>>
              /\ h.last_hidden = <<>>
              /\ HiddenByLoop = <<1>>
              /\ Payload = <<0>>
       /\ (h.calls = 2) =>
              /\ pc = "raised"
              /\ h.last_payload = <<0>>
              /\ h.last_hidden = <<1>>
              /\ conversation.messages = <<InitMessage(1), InitMessage(2)>>

\* The fatal error of the scenario, the manager's model being the maximum.
C15_Witness ==
    /\ pc = "raised"
    /\ h.start_messages = <<InitMessage(1), InitMessage(2)>>
    /\ InitMessage(1).role = SYSTEM
    /\ InitMessage(2).role = USER
    /\ h.caller_hidden = <<>>
    /\ h.start_model = MAX_MODEL_ENGINE
    /\ h.calls = 2
    /\ h.fails = 2

\* C16: on the conversation [System, User, Assistant, User] with nothing
\* hidden by the caller, when the first call fails below the maximum model
\* and the second call succeeds: the second call is made with the next
\* model, one FailedChatgptResponse and one AppendChatgptResponse action are
\* logged, no message is hidden, the context of the returned message is the
\* 4 messages, and the message is appended at index 4.
C16_BumpThenSuccess ==
    (/\ pc = "returned"
     /\ h.start_messages = ScenarioMessages
     /\ h.caller_hidden = <<>>
     /\ h.start_model < MAX_MODEL_ENGINE
     /\ h.fails = 1)
    => /\ h.calls = 2
       /\ h.last_model = get_next(h.start_model)
       /\ Len(LoggedByInvocation) = 2
       /\ LoggedByInvocation[1].type = "FailedChatgptResponse"
       /\ LoggedByInvocation[2].type = "AppendChatgptResponse"
       /\ LoggedByInvocation[2].message = h.returned
       /\ lists[actual_hidden_messages] = <<>>
       /\ lists[LoggedByInvocation[1].hidden_messages] = <<>>
       /\ lists[LoggedByInvocation[2].hidden_messages] = <<>>
       /\ h.last_payload = <<0, 1, 2, 3>>
       /\ h.returned.context = ScenarioMessages
       /\ Len(conversation.messages) = 5
       /\ PositionOf(conversation, 4) = 5
       /\ conversation.messages[PositionOf(conversation, 4)] = h.returned
       /\ SubSeq(conversation.messages, 1, 4) = ScenarioMessages

\* The scenario has run: the roles are those of its conversation, the model
\* was the default one and the response came from the next model.
C16_Witness ==
    /\ pc = "returned"
    /\ [i \in 1..4 |-> h.start_messages[i].role] = <<SYSTEM, USER, ASSISTANT, USER>>
    /\ h.caller_hidden = <<>>
    /\ h.start_model = DEFAULT_MODEL_ENGINE
    /\ h.start_model < MAX_MODEL_ENGINE
    /\ h.fails = 1
    /\ Len(conversation.messages) = 5

\* C20: reset_back_to_tag(tag) on a conversation in which messages bear the
\* tag leaves the messages up to and including the latest of them as they
\* were and deletes the messages after it; on a conversation in which no
\* message bears the tag it fails and changes nothing.
C20_ResetBackToTag ==
    [][(ops' = ops + 1 /\ last_op'.name = "reset_back_to_tag") =>
          LET bearers == {p \in 1..Len(conversation.messages) :
                             conversation.messages[p].tag = last_op'.arg}
          IN IF bearers = {}
             THEN /\ last_op'.status = "error"
                  /\ conversations' = conversations
             ELSE /\ last_op'.status = "ok"
                  /\ \E p \in bearers :
                        /\ \A q \in bearers : q <= p
                        /\ conversations' =
                              [conversations EXCEPT ![conversation_name].messages =
                                  SubSeq(conversation.messages, 1, p)]]_vars

\* The first operation was a reset of the conversation of 3 messages to the
\* tag of its second message: the third message is deleted.
C20_Witness ==
    /\ ops = 1
    /\ last_op = [name |-> "reset_back_to_tag", status |-> "ok", arg |-> "t"]
    /\ actions = Append(InitActions(3), ResetToTag(conversation_name, "t"))
    /\ conversation.messages = <<InitMessage(1), InitMessage(2)>>

(***************************************************************************)
(* The kinds of failure.                                                   *)
(***************************************************************************)
Min(a, b) == IF a <= b THEN a ELSE b

\* The messages the loop can remove: the visible ones but the first.
Removable == IF Len(StartVisible) >= 1 THEN Len(StartVisible) - 1 ELSE 0

\* After f failed calls: the bumps and the removals made, and whether the
\* last of the calls was fatal.
BumpsAfter(f) == Min(f, StrongerModels)
RemovalsAfter(f) == Min(f - BumpsAfter(f), Removable)
FatalAfter(f) == f - BumpsAfter(f) > Removable

\* The kinds of the failures the invocation has logged.
KindsLogged ==
    {LoggedByInvocation[i].exception :
        i \in {j \in 1..Len(LoggedByInvocation) :
                  LoggedByInvocation[j].type = "FailedChatgptResponse"}}

\* C18: the ladder is one function of the start of the invocation and of
\* the number of calls that failed, whatever the kinds of the failures: the
\* steps taken, the model, the hidden list, the payload of the call that is
\* out, the model, hidden list and payload of the last call answered, and
\* the end (returned, fatal error) are the same for two runs that fail at
\* the same attempts with different kinds.
C18_KindsUniform ==
    InLoop =>
        LET f == h.fails
            b == BumpsAfter(f)
            r == RemovalsAfter(f)
            g == h.calls - 1
        IN /\ h.steps = [i \in 1..(b + r) |-> IF i <= b THEN "bump" ELSE "remove"]
           /\ model = h.start_model + b
           /\ lists[actual_hidden_messages] =
                  h.caller_hidden \o [i \in 1..r |-> StartVisible[i + 1]]
           /\ (pc = "raised") <=> FatalAfter(f)
           /\ (pc = "returned") => h.calls = f + 1
           /\ (pc # "returned") => h.calls = f
           /\ (pc = "calling") => Payload = VisibleAfter(r)
           /\ (h.calls >= 1) =>
                  /\ h.last_model = h.start_model + BumpsAfter(g)
                  /\ h.last_payload = VisibleAfter(RemovalsAfter(g))
                  /\ h.last_hidden =
                         h.caller_hidden
                         \o [i \in 1..RemovalsAfter(g) |-> StartVisible[i + 1]]

\* The fatal error after bumps and removals, the failed calls being of 3
\* kinds at least.
C18_Witness ==
    /\ pc = "raised"
    /\ StepsOf("bump") # {}
    /\ StepsOf("remove") # {}
    /\ Cardinality(KindsLogged) >= 3

(***************************************************************************)
(* The web conversation.                                                   *)
(***************************************************************************)
\* An action without what it holds for the web.
StripWeb(a) ==
    [a EXCEPT !.web_conversation_name = None, !.adjust_message_for_web = None]

\* The action list a manager without a web conversation writes: no typing
\* action, no action holding data for the web.
RECURSIVE Unmirrored(_)
Unmirrored(log) ==
    IF log = <<>> THEN <<>>
    ELSE IF Head(log).type = "SetTypingAgent" THEN Unmirrored(Tail(log))
    ELSE <<StripWeb(Head(log))>> \o Unmirrored(Tail(log))

InAction(m) == threads[m].pc \in {"validated", "mutated"}

\* The actions the threads have applied to their conversations and not yet
\* logged.
NoneUnlogged == \A m \in Managers : threads[m].pc # "mutated"

C21_ConversationsStay ==
    [][\A name \in ConvNames :
          conversations[name].exists =>
              /\ conversations'[name].exists
              /\ conversations[name].participants
                     \subseteq conversations'[name].participants]_vars

\* A participant joined the conversation, and the conversation was then
\* created once more: it still has its 3 participants and its messages.
C21_Witness ==
    /\ ops = 2
    /\ last_op.name = "create_conversation"
    /\ actions[Len(actions) - 1].type = "AddParticipantsToConversation"
    /\ Cardinality(conversation.participants) = 3
    /\ Len(conversation.messages) = 3

(***************************************************************************)
(* The models.                                                             *)
(***************************************************************************)
\* The models a chain of calls has gone through, the first receiver included.
ModelsVisited == <<h.start_model>> \o h.steps

\* C22: get_model_with_more_strength and get_model_with_more_context each
\* return a model strictly higher in the order of the enum than the
\* receiver, or raise ValueError and leave the receiver where it is; the
\* model get_model_with_more_context returns has strictly more max_tokens;
\* and a chain of calls never comes back to a model it went through, so it
\* ends at a ceiling after fewer steps than there are models.
C22_TablesWellFounded ==
    [][(/\ ops' = ops + 1
        /\ last_op'.name \in {"get_model_with_more_strength",
                              "get_model_with_more_context"})
       => /\ last_op'.status \in {"ok", "error"}
          /\ (last_op'.status = "ok") =>
                 /\ model' \in ModelEngine
                 /\ model' > model
                 /\ (last_op'.name = "get_model_with_more_context")
                        => max_tokens(model') > max_tokens(model)
          /\ (last_op'.status = "error") => model' = model
          /\ LET visited == <<h'.start_model>> \o h'.steps
             IN /\ \A i, j \in 1..Len(visited) : i # j => visited[i] # visited[j]
                /\ Len(visited) <= Cardinality(ModelEngine)]_vars

\* More context twice from GPT35_TURBO, then no model with more context
\* and none with more strength: the ceiling.
C22_Witness ==
    /\ ModelsVisited = <<GPT35_TURBO, GPT35_TURBO_16, GPT4_TURBO>>
    /\ last_op.status = "error"
    /\ ops = 4

(***************************************************************************)
(* The two counters of the recovery loop.                                  *)
(***************************************************************************)
\* The indices hidden on the attempt that is out.
HiddenNow == Range(lists[actual_hidden_messages])

\* C23: from one attempt of an invocation to the next the model never goes
\* down and no index leaves the hidden list, and a retry moves exactly one
\* of the two: a higher model with the same hidden indices, or the same
\* model with more hidden indices.
C23_CountersMonotonic ==
    [][(pc = "calling" /\ h'.fails = h.fails + 1) =>
          /\ model' >= model
          /\ HiddenNow \subseteq HiddenNow'
          /\ (pc' = "calling") =>
                 \/ model' > model /\ HiddenNow' = HiddenNow
                 \/ model' = model /\ HiddenNow' # HiddenNow]_vars

\* The third retry: the model went up twice, then an index was hidden.
C23_Witness ==
    /\ pc = "calling"
    /\ h.steps = <<"bump", "bump", "remove">>
    /\ model = h.start_model + 2
    /\ Cardinality(HiddenNow) = Len(h.caller_hidden) + 1

(***************************************************************************)
(* The messages the loop hides.                                            *)
(***************************************************************************)
\* A call fails that was made with no higher model left.
FailsAtMaximum ==
    /\ pc = "calling"
    /\ h'.fails = h.fails + 1
    /\ ~(model < MAX_MODEL_ENGINE)

\* C24, as stated: after a failed attempt with no stronger model, a message
\* is hidden only if more than one sent message besides the message at
\* index 0 remains, and none is hidden when exactly one remains besides the
\* system message.
C24_HidesOnlyWithTwoBesidesSystem ==
    [][FailsAtMaximum =>
          LET besides == Range(Payload) \ {0}
          IN /\ (HiddenNow' # HiddenNow) => Cardinality(besides) > 1
             /\ (0 \in Range(Payload) /\ Cardinality(besides) = 1)
                    => HiddenNow' = HiddenNow]_vars

\* C24: after a failed attempt with no stronger model, a message is hidden
\* exactly when at least two messages were sent, that is at least one
\* besides the first; when exactly one was sent besides the first, it is
\* hidden and the next attempt sends the first message alone; when at most
\* one message was sent, none is hidden and the fatal error is raised.
C24_HidesWhileTwoAreSent ==
    [][FailsAtMaximum =>
          /\ (HiddenNow' # HiddenNow) <=> (Len(Payload) >= 2)
          /\ (Len(Payload) = 2) =>
                 /\ HiddenNow' = HiddenNow \cup {Payload[2]}
                 /\ pc' = "calling"
                 /\ Payload' = <<Payload[1]>>
          /\ (Len(Payload) <= 1) =>
                 /\ HiddenNow' = HiddenNow
                 /\ pc' = "raised"]_vars

\* The system message and one message were sent, the call failed at the
\* maximum model: the message is hidden and the system message is out alone.
C24_Witness ==
    /\ pc = "calling"
    /\ h.calls >= 1
    /\ h.last_model >= MAX_MODEL_ENGINE
    /\ h.last_payload = <<0, 1>>
    /\ HiddenNow = Range(h.last_hidden) \cup {1}
    /\ Payload = <<0>>

\* The smallest of a non-empty set of indices.
Smallest(S) == CHOOSE x \in S : \A y \in S : x <= y

\* C25: a shrink step appends one index to the hidden list: the smallest
\* index sent on the failed attempt that is not the first message sent.  The
\* index was not hidden before, the first message sent is not among the
\* indices the loop has hidden, and when the caller hid nothing the loop
\* hides 1, 2, ... in this order.
C25_ShrinkHidesSecondSent ==
    [][(pc = "calling" /\ lists' # lists) =>
          LET sent == Range(Payload)
              first == Smallest(sent)
              second == Smallest(sent \ {first})
          IN /\ Cardinality(sent) >= 2
             /\ actual_hidden_messages' = actual_hidden_messages
             /\ lists' = [lists EXCEPT ![actual_hidden_messages] = Append(@, second)]
             /\ second \notin HiddenNow
             /\ first \notin Range(HiddenByLoop')
             /\ first = Smallest(Range(Payload'))
             /\ (h.caller_hidden = <<>>)
                    => HiddenByLoop' = [i \in 1..Len(HiddenByLoop') |-> i]]_vars

\* The caller hid index 0 of a conversation of 3 messages: the loop has
\* hidden index 2 and sends the message at index 1, the first still sent.
C25_Witness ==
    /\ pc = "calling"
    /\ Len(h.start_messages) = 3
    /\ h.caller_hidden = <<0>>
    /\ HiddenByLoop = <<2>>
    /\ Payload = <<1>>

\* C26: the first model of an invocation is the model_engine the caller
\* passed, else DEFAULT_MODEL_ENGINE; and every bump of the loop goes to a
\* model that is strictly higher in the order of the models, whose
\* max_tokens is not smaller than that of the model it replaces, and that is
\* not above MAX_MODEL_ENGINE when the first model was not above it.
C26_EscalationNeverShrinksContext ==
    [][/\ (ops' = ops + 1 /\ pc' = "calling") =>
              model' = IF openai_call_parameters' # NoModel
                       THEN openai_call_parameters'
                       ELSE DEFAULT_MODEL_ENGINE
       /\ (pc = "calling" /\ model' # model) =>
              /\ model' > model
              /\ max_tokens(model') >= max_tokens(model)
              /\ (h.start_model <= MAX_MODEL_ENGINE) => model' <= MAX_MODEL_ENGINE]_vars

(***************************************************************************)
(* The hidden list recorded in the actions.                                *)
(***************************************************************************)
\* The hidden indices an action of the log holds.
RecordedHidden(a) == lists[a.hidden_messages]

\* C27: the hidden list held by the action that records an attempt is the
\* list that was in force for the attempt, and it stays so: a step of the
\* loop leaves the hidden list held by every action the invocation logged
\* earlier as it was.
C27_RecordedHiddenStays ==
    [][(pc = "calling" /\ h'.calls = h.calls + 1) =>
          /\ Len(actions') = Len(actions) + 1
          /\ lists'[actions'[Len(actions')].hidden_messages] = h'.last_hidden
          /\ \A i \in (h.start_actions + 1)..Len(actions) :
                lists'[actions'[i].hidden_messages] = RecordedHidden(actions[i])]_vars

(***************************************************************************)
(* The two records of what is sent.                                        *)
(***************************************************************************)
\* C28: whenever a call is out, the indices of the pairs the loop holds are
\* the indices of the messages sent on that call: the indices of the
\* conversation that are not in the hidden list, ascending.  The test of
\* exhaustion is thus made on what was sent: a call that fails at the
\* maximum model ends the invocation exactly when it sent at most one
\* message.
C28_PairsAreThePayload ==
    [][/\ (pc' = "calling") =>
              /\ indices_and_messages' =
                     SetToSeq({i \in 0..(Len(conversation'.messages) - 1) :
                                  i \notin HiddenNow'})
              /\ indices_and_messages' = Payload'
       /\ FailsAtMaximum =>
              /\ h'.last_payload = indices_and_messages
              /\ (pc' = "raised") <=> (Len(h'.last_payload) <= 1)]_vars

\* The caller hid index 1 of 3 messages and the loop hid index 2: one pair
\* is left, that of the message at index 0, the only one sent.
C28_Witness ==
    /\ pc = "calling"
    /\ Len(h.start_messages) = 3
    /\ h.caller_hidden = <<1>>
    /\ HiddenByLoop = <<2>>
    /\ indices_and_messages = <<0>>
    /\ h.last_payload = <<0, 2>>

(***************************************************************************)
(* A regeneration that fails.                                              *)
(***************************************************************************)
\* C29: when the acquisition that regenerate_previous_response re-runs ends
\* with the fatal error, the deleted response is not put back: the
\* conversation is the one before the call without its last message, the
\* other conversations are as they were, and the actions logged since the
\* call are the DeleteMessages action followed by one FailedChatgptResponse
\* action per failed call.
C29_RegenerateFatal ==
    (pc = "raised" /\ last_op.name = "regenerate_previous_response") =>
        LET before == BeforeRegenerate
            log == SubSeq(actions, h.start_actions, Len(actions))
        IN /\ Len(conversation.messages) = Len(before) - 1
           /\ conversation.messages = SubSeq(before, 1, Len(before) - 1)
           /\ before[Len(before)].role = ASSISTANT
           /\ \A name \in ConvNames \ {conversation_name} :
                 conversations[name] =
                     Replay(actions, h.start_actions - 1, EmptyRegistry)[name]
           /\ log[1] = DeleteMessages(conversation_name, -1)
           /\ Len(log) = 1 + h.fails
           /\ h.fails >= 1
           /\ \A i \in 2..Len(log) :
                 /\ log[i].type = "FailedChatgptResponse"
                 /\ log[i].conversation_name = conversation_name

\* A response to 3 messages was acquired, and its regeneration has failed
\* after a bump and two removals: the conversation holds the 3 messages.
C29_Witness ==
    /\ pc = "raised"
    /\ last_op.name = "regenerate_previous_response"
    /\ h.steps = <<"bump", "remove", "remove">>
    /\ Len(conversation.messages) = 3
    /\ Len(BeforeRegenerate) = 4

(***************************************************************************)
(* initialize_conversation_if_needed.                                      *)
(***************************************************************************)
\* A call of initialize_conversation_if_needed.
InitializeCalled ==
    ops' = ops + 1 /\ last_op'.name = "initialize_conversation_if_needed"

\* C30: initialize_conversation_if_needed returns True exactly when the
\* conversation does not exist, and then logs one CreateConversation action
\* with the manager's two participants; when the conversation exists it
\* returns False and logs one AddParticipantsToConversation action with the
\* manager's participants the conversation lacks, or nothing when it lacks
\* none.  A call that follows a call at once returns False and changes
\* neither the conversations nor the action list.
C30_InitializeIfNeeded ==
    [][InitializeCalled =>
          LET missing == {assistant_agent, user_agent} \ conversation.participants
          IN /\ (last_op'.status = "True") <=> ~conversation.exists
             /\ (last_op'.status = "False") <=> conversation.exists
             /\ ~conversation.exists =>
                    /\ actions' = Append(actions,
                           CreateConversation(conversation_name,
                                              {assistant_agent, user_agent}))
                    /\ conversation' = NewConversation({assistant_agent, user_agent})
             /\ (conversation.exists /\ missing # {}) =>
                    /\ actions' = Append(actions,
                           AddParticipantsToConversation(conversation_name, missing))
                    /\ conversation' =
                           [conversation EXCEPT !.participants = @ \cup missing]
             /\ (conversation.exists /\ missing = {}) =>
                    /\ actions' = actions
                    /\ conversations' = conversations
             /\ (last_op.name = "initialize_conversation_if_needed") =>
                    /\ last_op'.status = "False"
                    /\ actions' = actions
                    /\ conversations' = conversations]_vars

\* The first call added the one participant the conversation lacked, and
\* the second call has returned False and logged nothing.
C30_Witness ==
    /\ ops = 2
    /\ last_op = [name |-> "initialize_conversation_if_needed",
                  status |-> "False", arg |-> None]
    /\ CountOf(actions, "AddParticipantsToConversation") = 1
    /\ actions[Len(actions)] =
           AddParticipantsToConversation(conversation_name, {user_agent})
    /\ conversation.participants = {assistant_agent, user_agent, "Director"}

(***************************************************************************)
(* The messages create_and_append_message appends.                         *)
(***************************************************************************)
\* The message create_and_append_message is to append for a role and a tag:
\* the next text, the role and the tag as given, and the agent of the role.
MessageOfRole(role, t) ==
    [role |-> role, content |-> next_content, tag |-> t,
     agent |-> CASE role \in {SYSTEM, ASSISTANT, SURROGATE} -> assistant_agent
                 [] role = USER -> user_agent
                 [] OTHER -> None,
     context |-> <<>>, openai_call_parameters |-> NoModel]

\* What a call for a role and a tag does to the registry: on an existing
\* conversation the message is appended and logged in an AppendMessage
\* action, and nothing else changes.
AppendsMessageOfRole(role, t) ==
    IF conversation.exists
    THEN /\ conversations' =
                [conversations EXCEPT ![conversation_name].messages =
                    Append(@, MessageOfRole(role, t))]
         /\ Len(actions') = Len(actions) + 1
         /\ actions'[Len(actions')].type = "AppendMessage"
         /\ actions'[Len(actions')].message = MessageOfRole(role, t)
         /\ last_op'.status = "ok"
    ELSE /\ conversations' = conversations
         /\ last_op'.status = "error"

\* C31: create_and_append_message(role, content, tag) appends a message of
\* that role, content and tag, attributed to assistant_agent for SYSTEM,
\* ASSISTANT and SURROGATE, to user_agent for USER and to no agent for
\* COMMENTER; append_system_message appends a SYSTEM message with the tag
\* given, and with the tag 'system_prompt' when none is given.
C31_AgentByRole ==
    [][/\ \A role \in Role, t \in Tags :
             create_and_append_message(role, t, FALSE, {}) => AppendsMessageOfRole(role, t)
       /\ \A t \in Tags :
             append_system_message(t, FALSE, {})
                 => AppendsMessageOfRole(SYSTEM, IF t = None THEN "system_prompt" ELSE t)]_vars

\* A system message appended without a tag, then a comment: the first is
\* attributed to the assistant agent under the tag 'system_prompt', the
\* second to no agent.
C31_Witness ==
    /\ ops = 2
    /\ last_op.name = "create_and_append_message"
    /\ Len(conversation.messages) >= 2
    /\ LET n == Len(conversation.messages)
       IN /\ conversation.messages[n - 1].role = SYSTEM
          /\ conversation.messages[n - 1].tag = "system_prompt"
          /\ conversation.messages[n - 1].agent = assistant_agent
          /\ conversation.messages[n].role = COMMENTER
          /\ conversation.messages[n].agent = None
          /\ actions[Len(actions)].message = conversation.messages[n]
          /\ actions[Len(actions) - 1].message = conversation.messages[n - 1]

(***************************************************************************)
(* The worker thread and the GUI thread: research_step_window.py.  The     *)
(* Worker object lives in the GUI thread, so its slot set_text_input runs  *)
(* in the GUI thread, called from submit_text; request_input_signal and    *)
(* show_text_signal are emitted in the worker thread and queued to the GUI *)
(* thread's event loop.  QMutex and QWaitCondition are the library's:      *)
(* wait releases the mutex and blocks in one step, and returns holding the *)
(* mutex after a wake.                                                     *)
(***************************************************************************)
\* What no step of the two threads assigns.
pipeline == <<registry, lists, MAX_MODEL_ENGINE, DEFAULT_MODEL_ENGINE,
              web_conversation_name, threads, locks, locals, pc, last_op, ops,
              next_content, h>>

\* A signal queued to the GUI thread.
Queued(signal, panel_name, request) ==
    [signal |-> signal, panel |-> panel_name, request |-> request]

\* Line 35: the function the worker runs calls edit_text_in_panel, which
\* locks the mutex.
edit_text_in_panel_lock(panel_name) ==
    /\ worker.pc = "running"
    /\ worker.requests < MaxLen
    /\ mutex = None
    /\ mutex' = "worker"
    /\ worker' = [worker EXCEPT !.pc = "locked", !.panel = panel_name,
                                !.requests = @ + 1]
    /\ UNCHANGED <<gui, condition, _text_input, pipeline>>

\* Line 36 run after the mutex was released.
edit_text_in_panel_emit_unlocked ==
    /\ worker.pc = "locked"
    /\ worker' = [worker EXCEPT !.pc = "emitted"]
    /\ gui' = [gui EXCEPT !.queue = Append(@, Queued("request_input",
                                                      worker.panel, worker.requests))]
    /\ mutex' = None
    /\ UNCHANGED <<condition, _text_input, pipeline>>

\* Line 36: request_input_signal is emitted, the mutex held.
edit_text_in_panel_emit ==
    /\ worker.pc = "locked"
    /\ worker' = [worker EXCEPT !.pc = "emitted"]
    /\ gui' = [gui EXCEPT !.queue = Append(@, Queued("request_input",
                                                      worker.panel, worker.requests))]
    /\ UNCHANGED <<mutex, condition, _text_input, pipeline>>

\* Line 37, going in: the mutex is released and the thread waits.
edit_text_in_panel_wait ==
    /\ worker.pc = "emitted"
    /\ worker' = [worker EXCEPT !.pc = "waiting"]
    /\ mutex' = None
    /\ condition' = condition \cup {"worker"}
    /\ UNCHANGED <<gui, _text_input, pipeline>>

\* Line 37, coming out: woken, the thread takes the mutex again.
edit_text_in_panel_woken ==
    /\ worker.pc = "waiting"
    /\ "worker" \notin condition
    /\ mutex = None
    /\ mutex' = "worker"
    /\ worker' = [worker EXCEPT !.pc = "woken"]
    /\ UNCHANGED <<gui, condition, _text_input, pipeline>>

\* Line 38.
edit_text_in_panel_read ==
    /\ worker.pc = "woken"
    /\ worker' = [worker EXCEPT !.pc = "read", !.input_text = _text_input]
    /\ UNCHANGED <<gui, mutex, condition, _text_input, pipeline>>

\* Lines 39-40: the mutex is released and the text returned.
edit_text_in_panel_return ==
    /\ worker.pc = "read"
    /\ mutex' = None
    /\ worker' = [worker EXCEPT !.pc = "running",
                                !.returned = Append(@, worker.input_text)]
    /\ UNCHANGED <<gui, condition, _text_input, pipeline>>

\* Lines 42-43: Worker.show_text_in_panel, between two requests.
show_text_in_panel(panel_name) ==
    /\ worker.pc = "running"
    /\ gui.queue = <<>>
    /\ worker.requests < MaxLen
    /\ gui' = [gui EXCEPT !.queue = Append(@, Queued("show_text", panel_name, 0))]
    /\ UNCHANGED <<worker, mutex, condition, _text_input, pipeline>>

\* The GUI thread's event loop (the nested loop of edit_text, line 139,
\* included) takes the next queued signal.  Lines 230-236 and 125-139: the
\* panel's buttons are shown; lines 244-247 and 120-123: they are hidden.
DispatchSignal ==
    /\ gui.pc = "idle"
    /\ gui.queue # <<>>
    /\ LET event == Head(gui.queue)
       IN gui' = [gui EXCEPT
                     !.queue = Tail(@),
                     !.visible = IF event.signal = "request_input"
                                 THEN @ \cup {event.panel}
                                 ELSE @ \ {event.panel},
                     !.editing[event.panel] =
                         IF event.signal = "request_input" THEN event.request
                         ELSE @]
    /\ UNCHANGED <<worker, mutex, condition, _text_input, pipeline>>

\* The user clicks a visible submit button: on_submit (lines 141-146) hides
\* the buttons, and submit_text (lines 238-242) emits send_text_signal with
\* the panel's text, which calls set_text_input.
submit_text(panel_name, text) ==
    /\ gui.pc = "idle"
    /\ panel_name \in gui.visible
    /\ gui' = [gui EXCEPT !.pc = "set_text_input",
                          !.visible = @ \ {panel_name},
                          !.panel = panel_name,
                          !.text = text,
                          !.request = gui.editing[panel_name]]
    /\ UNCHANGED <<worker, mutex, condition, _text_input, pipeline>>

\* Line 47.
set_text_input_lock ==
    /\ gui.pc = "set_text_input"
    /\ mutex = None
    /\ mutex' = "gui"
    /\ gui' = [gui EXCEPT !.pc = "locked"]
    /\ UNCHANGED <<worker, condition, _text_input, pipeline>>

\* Lines 48-49.
set_text_input_store ==
    /\ gui.pc = "locked"
    /\ _text_input' = gui.text
    /\ gui' = [gui EXCEPT !.pc = "stored",
                          !.answers = Append(@, [request |-> gui.request,
                                                 text |-> gui.text])]
    /\ UNCHANGED <<worker, mutex, condition, pipeline>>

\* Line 50.
set_text_input_wakeAll ==
    /\ gui.pc = "stored"
    /\ condition' = {}
    /\ gui' = [gui EXCEPT !.pc = "woke"]
    /\ UNCHANGED <<worker, mutex, _text_input, pipeline>>

\* Line 51 left out: the slot returns with the mutex locked.
set_text_input_returns_locked ==
    /\ gui.pc = "woke"
    /\ gui' = [gui EXCEPT !.pc = "idle"]
    /\ UNCHANGED <<worker, mutex, condition, _text_input, pipeline>>

\* Line 51.
set_text_input_unlock ==
    /\ gui.pc = "woke"
    /\ mutex' = None
    /\ gui' = [gui EXCEPT !.pc = "idle"]
    /\ UNCHANGED <<worker, condition, _text_input, pipeline>>

\* What the worker thread does next, and what the GUI thread does next once
\* set_text_input was called.
WorkerStep ==
    \/ edit_text_in_panel_emit
    \/ edit_text_in_panel_wait
    \/ edit_text_in_panel_woken
    \/ edit_text_in_panel_read
    \/ edit_text_in_panel_return

set_text_input ==
    \/ set_text_input_lock
    \/ set_text_input_store
    \/ set_text_input_wakeAll
    \/ set_text_input_unlock

NextHandoff ==
    \/ \E panel_name \in Panels : edit_text_in_panel_lock(panel_name)
    \/ \E panel_name \in Panels : show_text_in_panel(panel_name)
    \/ WorkerStep
    \/ DispatchSignal
    \/ \E panel_name \in Panels, text \in Texts : submit_text(panel_name, text)
    \/ set_text_input

\* The application as constructed, before any conversation exists.
InitHandoff == InitOne /\ ~conversation.exists

HandoffSpec == InitHandoff /\ [][NextHandoff]_vars

\* The two threads are scheduled: a thread that can take its next step in
\* edit_text_in_panel or in set_text_input takes it.  What the worker
\* requests and whether the user submits is left open.
FairHandoffSpec ==
    InitHandoff /\ [][NextHandoff]_vars /\ WF_vars(WorkerStep) /\ WF_vars(set_text_input)

\* The GUI thread is inside set_text_input holding the mutex.
InSetTextInput == gui.pc \in {"locked", "stored", "woke"}

\* C33: set_text_input never runs between the request and the wait: while
\* it holds the mutex the worker is not between lines 35 and 37, and when it
\* wakes the condition the worker is waiting on it; and every text
\* edit_text_in_panel returned is the text of the set_text_input call that
\* answered its request, the k-th return the text of the call for request k.
C33_NoLostWakeup ==
    /\ InSetTextInput => worker.pc \notin {"locked", "emitted"}
    /\ gui.pc = "stored" => "worker" \in condition
    /\ Len(worker.returned) <= Len(gui.answers)
    /\ \A k \in 1..Len(worker.returned) :
           /\ gui.answers[k].request = k
           /\ worker.returned[k] = gui.answers[k].text
    /\ worker.pc = "read" =>
           /\ Len(gui.answers) = worker.requests
           /\ worker.input_text = gui.answers[worker.requests].text

\* Two requests were answered with different texts, and each call returned
\* its own.
C33_Witness ==
    /\ worker.pc = "running"
    /\ Len(worker.returned) = 2
    /\ worker.returned[1] # worker.returned[2]
    /\ _text_input = worker.returned[2]

\* C34: a thread holds the mutex only inside the call that took it (the
\* GUI thread inside set_text_input, the worker inside edit_text_in_panel
\* and not while it waits), and once the GUI thread has called
\* set_text_input for a request, edit_text_in_panel returns for that request,
\* for every request of a row of requests.
C34_HandoffLive ==
    /\ [](/\ mutex = "gui" <=> InSetTextInput
          /\ mutex = "worker" <=> worker.pc \in {"locked", "emitted", "woken", "read"})
    /\ \A k \in 1..(MaxLen + 1) :
           (gui.pc = "set_text_input" /\ gui.request = k)
               ~> (worker.pc = "running" /\ Len(worker.returned) >= k)

\* As many requests as the worker makes were answered in a row, and both
\* threads are out of the handoff with the mutex free.
C34_Witness ==
    /\ Len(worker.returned) >= 3
    /\ worker.requests = Len(worker.returned)
    /\ worker.pc = "running"
    /\ gui.pc = "idle"
    /\ mutex = None
    /\ condition = {}

(***************************************************************************)
(* The typing indicator of the web conversation.                           *)
(***************************************************************************)
\* The actions a step appends to the action list, and the places of the
\* SetTypingAgent actions among them.
Logged == SubSeq(actions', Len(actions) + 1, Len(actions'))
TypingLogged == {i \in 1..Len(Logged) : Logged[i].type = "SetTypingAgent"}

\* What holds of a typing action create_and_append_message logs.
TypingOfAppend(role, reverse_roles_for_web, kwargs) ==
    TypingLogged # {} =>
        /\ AgentOfRole(role) # None
        /\ web_conversation.exists
        /\ "web_conversation_name" \notin kwargs
        /\ TypingLogged = {1}
        /\ Len(Logged) = 2
        /\ Logged[2].type = "AppendMessage"
        /\ Logged[2].message.role = role
        /\ IF reverse_roles_for_web
           THEN Logged[1].agent \in web_conversation.participants \ {AgentOfRole(role)}
           ELSE Logged[1].agent = AgentOfRole(role)

\* What holds of a typing action an acquisition logs before its first call.
TypingOfAcquisition ==
    TypingLogged # {} =>
        /\ web_conversation.exists
        /\ TypingLogged = {Len(Logged)}
        /\ Logged[Len(Logged)].agent = assistant_agent
        /\ pc' = "calling" => h'.start_actions = Len(actions')

\* C32: a SetTypingAgent action is logged only for a message of an agent,
\* when the web conversation exists and the caller did not pass
\* web_conversation_name=None; create_and_append_message logs it right before
\* its AppendMessage action, with the agent of the message or, the roles
\* reversed, the other participant of the web conversation; an acquisition
\* logs it for the assistant agent before anything the recovery loop logs,
\* and the loop logs none.
C32_TypingAction ==
    [][/\ \A role \in Role, reverse_roles_for_web \in BOOLEAN, kwargs \in Kwargs :
              create_and_append_message(role, None, reverse_roles_for_web, kwargs)
                  => TypingOfAppend(role, reverse_roles_for_web, kwargs)
       /\ get_and_append_assistant_message(None, <<>>, NoModel) => TypingOfAcquisition
       /\ regenerate_previous_response => TypingOfAcquisition
       /\ pc = "calling" => TypingLogged = {}]_vars

\* A message of the assistant agent was appended with the roles reversed: the
\* user agent was typing, then the message was appended; and an acquisition
\* that logged its typing action has logged its response.
C32_Witness ==
    /\ Len(actions) >= 4
    /\ actions[Len(actions) - 3].type = "SetTypingAgent"
    /\ actions[Len(actions) - 3].agent = user_agent
    /\ actions[Len(actions) - 2].type = "AppendMessage"
    /\ actions[Len(actions) - 2].message.agent = assistant_agent
    /\ actions[Len(actions) - 2].adjust_message_for_web = user_agent
    /\ actions[Len(actions) - 1].type = "SetTypingAgent"
    /\ actions[Len(actions) - 1].agent = assistant_agent
    /\ actions[Len(actions)].type = "AppendChatgptResponse"
    /\ h.start_actions = Len(actions) - 1

====
